---------------------------- MODULE Spec2Model ----------------------------
(***************************************************************************)
(* Token ring monitor: the TCP ingestion path (server.js), the state       *)
(* aggregator (networkMonitor.js), the recorder (database.js) and the      *)
(* playback timers (server.js), as one state machine.                      *)
(*                                                                         *)
(* JavaScript values are represented as follows.  A missing key            *)
(* (undefined) is Absent for string fields, NoInt for number fields and    *)
(* NoList for array fields; JSON null is Null, resp. NullList.             *)
(* Timestamps (new Date().toISOString()) are the integer wall clock `now'; *)
(* ISO strings of one format compare as the instants they denote.          *)
(***************************************************************************)
EXTENDS Integers, Sequences, FiniteSets, TLC

VARIABLES
    now,             \* the wall clock read by new Date()
    conns,           \* per TCP connection: open, closure variables nodeId and buffer
    connectedNodes,  \* TokenRingMonitorServer.connectedNodes (Map)
    mon,             \* the NetworkMonitor instance
    isRecording,     \* TokenRingMonitorServer.isRecording
    db,              \* the DatabaseManager instance and its two tables
    fin,             \* database calls in flight: endRecordingSession at an await, a rejected INSERT
    emitted,         \* what the last step published with io.emit
    handled,         \* the messages the last step passed to handleNodeMessage
    stream,          \* per connection: all bytes received so far
    delivered,       \* per connection: all messages passed to handleNodeMessage so far
    obs,             \* per web client socket: connected, playbackInterval
    timers,          \* the startPlayback calls: loaded events, eventIndex, interval state
    outbox,          \* per web client socket: what socket.emit sent it
    exported,        \* results returned by exportSessionData
    player           \* the RecordingPlayback component: its state and its intervals

vars == <<now, conns, connectedNodes, mon, isRecording, db, fin, emitted,
          handled, stream, delivered, obs, timers, outbox, exported, player>>

(***************************************************************************)
(* Bounds of the model.                                                    *)
(***************************************************************************)
MaxConns == 2
MaxNodes == 2
MaxTime == 1
MaxHist == 3
MaxHolds == 2
MaxStream == 6
MaxChunk == 2
MaxSessions == 2
MaxEvents == 2
MaxTimers == 2
MaxObs == 2
MaxExports == 1
MaxReports == 2
MaxCount == 2
MaxOutbox == 5
MaxLoaded == 3
MaxIntervals == 2
MaxOver == 3

(***************************************************************************)
(* Program constants.                                                      *)
(***************************************************************************)
HISTORY_CAP == 1000
WINDOW_MS == 60000

Absent == "absent"
Null == "null"
NoInt == 0 - 1
NoList == <<"absent">>

\* the node ids in use, the first MaxNodes of these names
NodeNames == <<"A", "B", "C">>
NodeIds == {NodeNames[i] : i \in 1 .. MaxNodes}
\* the neighbour lists over these ids, each id at most once
NeighborLists ==
    {[i \in 1 .. Len(q) |-> NodeNames[q[i]]] :
        q \in {r \in UNION {[1 .. k -> 1 .. MaxNodes] : k \in 0 .. MaxNodes} :
                  \A i \in 1 .. Len(r) - 1 : r[i] < r[i + 1]}}
Conns == 1 .. MaxConns
Observers == 1 .. MaxObs

IsList(l) ==
    LET NullList == <<"null">>
    IN  l # NoList /\ l # NullList
Num(v) == IF v = NoInt THEN 0 ELSE v
Range(s) == {s[i] : i \in 1 .. Len(s)}

RECURSIVE SumOver(_, _)
SumOver(S, f) ==
    IF S = {} THEN 0
    ELSE LET x == CHOOSE y \in S : TRUE
         IN f[x] + SumOver(S \ {x}, f)

Put(map, k, v) == [x \in DOMAIN map \cup {k} |-> IF x = k THEN v ELSE map[x]]
Del(map, k) == [x \in DOMAIN map \ {k} |-> map[x]]
EmptyMap == [x \in {} |-> 0]

(***************************************************************************)
(* Objects.  An object is a record over a fixed set of keys; a key the     *)
(* JavaScript object does not have holds the absent value of its type.     *)
(***************************************************************************)
AbsentOf(k) ==
    LET ListKeys == {"neighbors"}
    IN  LET IntKeys == {"socket", "lastSeen", "lastUpdated", "tokenHolds", "lastTokenHold",
                        "bytesSent", "bytesReceived", "messagesRelayed", "sequence",
                        "traversalDepth", "depth", "visitedCount", "lastMovement", "timestamp"}
        IN  IF k \in IntKeys THEN NoInt ELSE IF k \in ListKeys THEN NoList ELSE Absent
Has(o, k) == o[k] # AbsentOf(k)

\* { ...a, ...b } for two objects over the same keys
Spread(a, b) == [k \in DOMAIN a |-> IF Has(b, k) THEN b[k] ELSE a[k]]

NoData ==
    LET DataKeys == {"nodeId", "ip", "status", "neighbors", "currentHolder", "sequence",
                     "phase", "traversalDepth", "depth", "visited", "bytesSent",
                     "bytesReceived", "messagesRelayed"}
    IN  [k \in DataKeys |-> AbsentOf(k)]

NodeKeys == {"nodeId", "ip", "status", "neighbors", "socket", "lastSeen",
             "lastUpdated", "tokenHolds", "lastTokenHold", "bytesSent",
             "bytesReceived", "messagesRelayed"}
NoNode == [k \in NodeKeys |-> AbsentOf(k)]

TokenKeys == {"currentHolder", "sequence", "phase", "traversalDepth",
              "visitedCount", "lastMovement"}

PerfKeys == {"nodeId", "bytesSent", "bytesReceived", "messagesRelayed", "timestamp"}

\* the keys of `o' that `keys' names, the others absent
Project(o, keys) == [k \in keys |-> IF k \in DOMAIN o THEN o[k] ELSE AbsentOf(k)]

Frac(n, d) == [num |-> n, den |-> d]

(***************************************************************************)
(* NetworkMonitor (networkMonitor.js)                                      *)
(***************************************************************************)
MonInit ==
    [nodes |-> EmptyMap,
     topoNodes |-> <<>>,
     edges |-> <<>>,
     tokenStatus |-> [currentHolder |-> Null, sequence |-> 0, phase |-> "FORWARD",
                      traversalDepth |-> 0, visitedCount |-> 0, lastMovement |-> NoInt],
     statistics |-> [totalNodes |-> 0, activeNodes |-> 0, totalBandwidth |-> 0,
                     messagesRelayed |-> 0, tokenCirculations |-> 0,
                     averageTokenHoldTime |-> Frac(0, 1),
                     networkEfficiency |-> Frac(0, 1),
                     dfsCompletionRate |-> Frac(0, 1)],
     dfsState |-> EmptyMap,
     tokenHistory |-> <<>>,
     performanceMetrics |-> EmptyMap]

\* the efficiency as the quotient of relayed messages by circulations alone
calculateGlobalStatistics_OverCirculations(m, t) ==
    LET ids == DOMAIN m.nodes
        active == {n \in ids : m.nodes[n].status = "active"}
        relayed == SumOver(ids, [n \in ids |-> Num(m.nodes[n].messagesRelayed)])
        total == m.statistics.tokenCirculations
        expected == Cardinality(active)
    IN [m EXCEPT !.statistics =
            [totalNodes |-> Cardinality(ids),
             activeNodes |-> Cardinality(active),
             totalBandwidth |-> SumOver(ids, [n \in ids |-> Num(m.nodes[n].bytesSent)
                                                          + Num(m.nodes[n].bytesReceived)]),
             messagesRelayed |-> relayed,
             tokenCirculations |-> m.statistics.tokenCirculations,
             averageTokenHoldTime |-> m.statistics.averageTokenHoldTime,
             networkEfficiency |-> IF total > 0 THEN Frac(relayed * 100, total)
                                   ELSE Frac(0, 1),
             dfsCompletionRate |-> IF expected > 0
                                   THEN Frac(m.tokenStatus.visitedCount * 100, expected)
                                   ELSE Frac(0, 1)]]

calculateGlobalStatistics(m, t) ==
    LET ids == DOMAIN m.nodes
        active == {n \in ids : m.nodes[n].status = "active"}
        bandwidth == SumOver(ids, [n \in ids |-> Num(m.nodes[n].bytesSent)
                                                  + Num(m.nodes[n].bytesReceived)])
        relayed == SumOver(ids, [n \in ids |-> Num(m.nodes[n].messagesRelayed)])
        recent == SelectSeq(m.tokenHistory, LAMBDA h : h.timestamp > t - WINDOW_MS)
        avg == IF Len(recent) > 1
               THEN Frac(SumOver(2 .. Len(recent),
                                 [i \in 2 .. Len(recent) |->
                                     recent[i].timestamp - recent[i - 1].timestamp]),
                         Len(recent) - 1)
               ELSE m.statistics.averageTokenHoldTime
        total == m.statistics.tokenCirculations + relayed
        expected == Cardinality(active)
    IN [m EXCEPT !.statistics =
            [totalNodes |-> Cardinality(ids),
             activeNodes |-> Cardinality(active),
             totalBandwidth |-> bandwidth,
             messagesRelayed |-> relayed,
             tokenCirculations |-> m.statistics.tokenCirculations,
             averageTokenHoldTime |-> avg,
             networkEfficiency |-> IF total > 0 THEN Frac(relayed * 100, total)
                                   ELSE Frac(0, 1),
             dfsCompletionRate |-> IF expected > 0
                                   THEN Frac(m.tokenStatus.visitedCount * 100, expected)
                                   ELSE Frac(0, 1)]]

\* updateStatistics without the recalculation of the totals at its end
updateStatistics_NoRecalc(m, statsData, t) ==
    LET n == statsData.nodeId
    IN IF n # Absent /\ n # Null /\ n \in DOMAIN m.nodes
       THEN [m EXCEPT !.nodes[n].bytesSent = Num(statsData.bytesSent),
                      !.nodes[n].bytesReceived = Num(statsData.bytesReceived),
                      !.nodes[n].messagesRelayed = Num(statsData.messagesRelayed)]
       ELSE m

\* updateStatistics(statsData); called without an argument, statsData is NoData
updateStatistics(m, statsData, t) ==
    LET NoPerf == [k \in PerfKeys |-> AbsentOf(k)]
    IN  LET n == statsData.nodeId
            known == n # Absent /\ n # Null /\ n \in DOMAIN m.nodes
            m1 == IF known
                  THEN [m EXCEPT
                          !.nodes[n].bytesSent = Num(statsData.bytesSent),
                          !.nodes[n].bytesReceived = Num(statsData.bytesReceived),
                          !.nodes[n].messagesRelayed = Num(statsData.messagesRelayed),
                          !.performanceMetrics =
                              Put(m.performanceMetrics, n,
                                  [Spread(IF n \in DOMAIN m.performanceMetrics
                                          THEN m.performanceMetrics[n] ELSE NoPerf,
                                          Project(statsData, PerfKeys))
                                      EXCEPT !.timestamp = t])]
                  ELSE m
        IN calculateGlobalStatistics(m1, t)

RECURSIVE NeighborEdges(_, _, _, _)
NeighborEdges(nodeId, neighbors, known, i) ==
    IF i > Len(neighbors) THEN <<>>
    ELSE (IF neighbors[i] \in known
          THEN <<[from |-> nodeId, to |-> neighbors[i]]>>
          ELSE <<>>) \o NeighborEdges(nodeId, neighbors, known, i + 1)

TopoIndex(m, nodeId) ==
    IF \E i \in 1 .. Len(m.topoNodes) : m.topoNodes[i].id = nodeId
    THEN CHOOSE i \in 1 .. Len(m.topoNodes) :
            /\ m.topoNodes[i].id = nodeId
            /\ \A j \in 1 .. i - 1 : m.topoNodes[j].id # nodeId
    ELSE 0

updateTopologyFromNode(m, nodeId, nodeInfo) ==
    LET idx == TopoIndex(m, nodeId)
        nodeData == [id |-> nodeId,
                     ip |-> nodeInfo.ip,
                     status |-> IF Has(nodeInfo, "status") THEN nodeInfo.status
                                ELSE "active",
                     hasToken |-> m.tokenStatus.currentHolder = nodeId,
                     neighbors |-> IF Has(nodeInfo, "neighbors") THEN nodeInfo.neighbors
                                   ELSE <<>>]
        m1 == [m EXCEPT !.topoNodes = IF idx > 0 THEN [@ EXCEPT ![idx] = nodeData]
                                      ELSE Append(@, nodeData)]
    IN IF IsList(nodeInfo.neighbors)
       THEN [m1 EXCEPT !.edges =
                SelectSeq(@, LAMBDA e : e.from # nodeId /\ e.to # nodeId)
                \o NeighborEdges(nodeId, nodeInfo.neighbors, DOMAIN m1.nodes, 1)]
       ELSE m1

updateNode(m, nodeId, nodeInfo, t) ==
    LET existingNode == IF nodeId \in DOMAIN m.nodes THEN m.nodes[nodeId] ELSE NoNode
        updatedNode == [Spread(existingNode, nodeInfo) EXCEPT !.lastUpdated = t]
        m1 == [m EXCEPT !.nodes = Put(@, nodeId, updatedNode)]
        m2 == updateTopologyFromNode(m1, nodeId, updatedNode)
    IN updateStatistics(m2, NoData, t)

\* updateTokenStatus cutting a full history at its end: slice(0, 1000)
updateTokenStatus_KeepOldest(m, tokenData, t) ==
    LET previousHolder == m.tokenStatus.currentHolder
        holder == tokenData.currentHolder
        merged == [Spread(m.tokenStatus, Project(tokenData, TokenKeys))
                      EXCEPT !.lastMovement = t]
        moved == previousHolder # Null /\ previousHolder # holder
        movement == [from |-> previousHolder, to |-> holder, timestamp |-> t,
                     sequence |-> tokenData.sequence, phase |-> tokenData.phase,
                     depth |-> tokenData.traversalDepth]
        pushed == Append(m.tokenHistory, movement)
        history == IF ~moved THEN m.tokenHistory
                   ELSE IF Len(pushed) > HISTORY_CAP
                        THEN SubSeq(pushed, 1, HISTORY_CAP)
                        ELSE pushed
        m1 == [m EXCEPT !.tokenStatus = merged,
                        !.tokenHistory = history,
                        !.statistics.tokenCirculations = IF moved THEN @ + 1 ELSE @]
    IN IF holder # Absent /\ holder # Null /\ holder \in DOMAIN m1.nodes
       THEN [m1 EXCEPT !.nodes[holder].tokenHolds = Num(@) + 1,
                       !.nodes[holder].lastTokenHold = t]
       ELSE m1

updateTokenStatus(m, tokenData, t) ==
    LET previousHolder == m.tokenStatus.currentHolder
        holder == tokenData.currentHolder
        merged == [Spread(m.tokenStatus, Project(tokenData, TokenKeys))
                      EXCEPT !.lastMovement = t]
        moved == previousHolder # Null /\ previousHolder # holder
        movement == [from |-> previousHolder, to |-> holder, timestamp |-> t,
                     sequence |-> tokenData.sequence, phase |-> tokenData.phase,
                     depth |-> tokenData.traversalDepth]
        pushed == Append(m.tokenHistory, movement)
        history == IF ~moved THEN m.tokenHistory
                   ELSE IF Len(pushed) > HISTORY_CAP
                        THEN SubSeq(pushed, Len(pushed) - HISTORY_CAP + 1, Len(pushed))
                        ELSE pushed
        m1 == [m EXCEPT !.tokenStatus = merged,
                        !.tokenHistory = history,
                        !.statistics.tokenCirculations = IF moved THEN @ + 1 ELSE @]
    IN IF holder # Absent /\ holder # Null /\ holder \in DOMAIN m1.nodes
       THEN [m1 EXCEPT !.nodes[holder].tokenHolds = Num(@) + 1,
                       !.nodes[holder].lastTokenHold = t]
       ELSE m1

updateTopology(m, topologyData) ==
    LET n == topologyData.nodeId
    IN IF n # Absent /\ n # Null /\ n \in DOMAIN m.nodes
       THEN LET node == [m.nodes[n] EXCEPT
                            !.neighbors = IF IsList(topologyData.neighbors)
                                          THEN topologyData.neighbors ELSE <<>>]
                m1 == [m EXCEPT !.nodes[n] = node]
            IN updateTopologyFromNode(m1, n, node)
       ELSE m

updateDfsState(m, dfsData, t) ==
    LET n == dfsData.nodeId
    IN IF n # Absent /\ n # Null
       THEN [m EXCEPT
               !.dfsState = Put(@, n, [phase |-> dfsData.phase, depth |-> dfsData.depth,
                                       visited |-> dfsData.visited, timestamp |-> t]),
               !.tokenStatus.phase =
                   IF dfsData.phase # Absent /\ dfsData.phase # Null
                   THEN dfsData.phase ELSE @,
               !.tokenStatus.traversalDepth =
                   IF dfsData.depth # NoInt /\ dfsData.depth # 0 THEN dfsData.depth ELSE @,
               !.tokenStatus.visitedCount = Cardinality(DOMAIN m.dfsState \cup {n})]
       ELSE m

\* removeNode without the filter of the edges
removeNode_KeepEdges(m, nodeId, t) ==
    updateStatistics([m EXCEPT !.nodes = Del(@, nodeId),
                               !.dfsState = Del(@, nodeId),
                               !.performanceMetrics = Del(@, nodeId),
                               !.topoNodes = SelectSeq(@, LAMBDA n : n.id # nodeId)],
                     NoData, t)

removeNode(m, nodeId, t) ==
    LET m1 == [m EXCEPT
                 !.nodes = Del(@, nodeId),
                 !.dfsState = Del(@, nodeId),
                 !.performanceMetrics = Del(@, nodeId),
                 !.topoNodes = SelectSeq(@, LAMBDA n : n.id # nodeId),
                 !.edges = SelectSeq(@, LAMBDA e : e.from # nodeId /\ e.to # nodeId)]
    IN updateStatistics(m1, NoData, t)

(***************************************************************************)
(* The wire.  A byte stream is a sequence of symbols: the line terminator  *)
(* NL, white space SP, and for every report m the two halves of its JSON   *)
(* text (the text cut at a token boundary).  JSON.parse accepts a line     *)
(* exactly when, white space aside, it is the two halves of one report.    *)
(* A node id may hold a character outside ASCII: AccentId is the id made   *)
(* of the one character U+00E9, which UTF-8 encodes in the two bytes Lead  *)
(* and Trail; in the text of such a report the two bytes stand between the *)
(* halves.  A string is a sequence of the same symbols with characters in  *)
(* the place of bytes: Char is U+00E9 and Fffd the replacement character.  *)
(***************************************************************************)
NL == [half |-> "nl", msg |-> <<>>]
SP == [half |-> "sp", msg |-> <<>>]
Head_(m) == [half |-> "head", msg |-> <<m>>]
Tail_(m) == [half |-> "tail", msg |-> <<m>>]
Lead == [half |-> "lead", msg |-> <<>>]
Trail == [half |-> "trail", msg |-> <<>>]
Char == [half |-> "char", msg |-> <<>>]
Fffd == [half |-> "fffd", msg |-> <<>>]
AccentId == "[U+00E9]"
Text(m) ==
    IF m.data.nodeId = AccentId THEN <<Head_(m), Lead, Trail, Tail_(m)>>
    ELSE <<Head_(m), Tail_(m)>>
Line(m) == Text(m) \o <<NL>>

\* data.toString(): the UTF-8 decoding of the bytes of one read, on its own;
\* a lead byte without its trail byte, and a trail byte without its lead
\* byte, each become a replacement character
RECURSIVE toString(_, _)
toString(data, i) ==
    IF i > Len(data) THEN <<>>
    ELSE IF data[i] = Lead /\ i < Len(data) /\ data[i + 1] = Trail
         THEN <<Char>> \o toString(data, i + 2)
         ELSE IF data[i] = Lead \/ data[i] = Trail
              THEN <<Fffd>> \o toString(data, i + 1)
              ELSE <<data[i]>> \o toString(data, i + 1)

\* buffer.split('\n'): the pieces between terminators, the last one unterminated
RECURSIVE Split(_, _, _)
Split(s, i, piece) ==
    IF i > Len(s) THEN <<piece>>
    ELSE IF s[i] = NL THEN <<piece>> \o Split(s, i + 1, <<>>)
         ELSE Split(s, i + 1, Append(piece, s[i]))

\* messageStr.trim() is truthy
Trimmed(str) == \E i \in 1 .. Len(str) : str[i] # SP

\* JSON.parse(messageStr): <<message>>, or <<>> when it throws.  The
\* characters between the halves are the node id of the report: one or two
\* replacement characters are an id as good as any to JSON.parse
JSONparse(str) ==
    LET FffdFffdId == "[U+FFFD][U+FFFD]"
    IN  LET FffdId == "[U+FFFD]"
        IN  LET t == SelectSeq(str, LAMBDA x : x # SP)
                halves == /\ Len(t) >= 2
                          /\ t[1].half = "head" /\ t[Len(t)].half = "tail"
                          /\ t[1].msg = t[Len(t)].msg
                m == t[1].msg[1]
                id == SubSeq(t, 2, Len(t) - 1)
            IN IF ~halves THEN <<>>
               ELSE IF m.data.nodeId # AccentId
                    THEN IF id = <<>> THEN <<m>> ELSE <<>>
                    ELSE IF id = <<Char>> THEN <<m>>
                    ELSE IF id = <<Fffd>> THEN <<[m EXCEPT !.data.nodeId = FffdId]>>
                    ELSE IF id = <<Fffd, Fffd>> THEN <<[m EXCEPT !.data.nodeId = FffdFffdId]>>
                    ELSE <<>>

(***************************************************************************)
(* DatabaseManager (database.js).  Statements take effect in the order     *)
(* they are issued.  currentSessionId 0 is null; uuidv4() is the next      *)
(* unused session number.  NoInt is a NULL end_time.                       *)
(***************************************************************************)
DbInit == [currentSessionId |-> 0, sessions |-> EmptyMap, events |-> <<>>]

startRecordingSession(d) ==
    LET id == Cardinality(DOMAIN d.sessions) + 1
    IN [d EXCEPT !.currentSessionId = id,
                 !.sessions = Put(@, id, [end_time |-> NoInt, node_count |-> 0,
                                          event_count |-> 0])]

recordEvent(d, eventType, data, timestamp) ==
    IF d.currentSessionId = 0 THEN d
    ELSE [d EXCEPT !.events =
             Append(@, [id |-> Len(d.events) + 1,
                        session_id |-> d.currentSessionId,
                        event_type |-> eventType,
                        node_id |-> IF data.nodeId = Absent THEN Null ELSE data.nodeId,
                        data |-> data,
                        timestamp |-> timestamp])]

SessionEvents(d, sessionId) == SelectSeq(d.events, LAMBDA e : e.session_id = sessionId)

\* SELECT COUNT( * ) FROM network_events WHERE session_id = ?
CountEvents(d, sessionId) == Len(SessionEvents(d, sessionId))

\* SELECT COUNT(DISTINCT node_id) ... WHERE session_id = ? AND node_id IS NOT NULL
CountNodes(d, sessionId) ==
    Cardinality({e.node_id : e \in Range(SessionEvents(d, sessionId))} \ {Null})

\* SELECT ... WHERE session_id = ? ORDER BY timestamp ASC, then JSON.parse of
\* each row's data: every ordering of the rows that ascends in timestamp
\* (SQL leaves the order of rows with equal keys open)
getRecordingEvents(d, sessionId) ==
    LET rows == SessionEvents(d, sessionId)
        n == Len(rows)
        perms == {p \in [1 .. n -> 1 .. n] : \A i, j \in 1 .. n : i # j => p[i] # p[j]}
    IN {[i \in 1 .. n |-> rows[p[i]]] : p \in
           {q \in perms : \A i \in 1 .. n - 1 :
                             rows[q[i]].timestamp <= rows[q[i + 1]].timestamp}}

(***************************************************************************)
(* TokenRingMonitorServer (server.js): the report dispatcher.  The         *)
(* handlers work on the record S of what a 'data' event may change.        *)
(***************************************************************************)
\* io.emit(event, data); `monitor' keeps the NetworkMonitor as it is at the
\* moment of the call
broadcastToClients(S, event, data) ==
    [S EXCEPT !.emitted = Append(@, [event |-> event, data |-> data, monitor |-> S.mon])]

handleNodeInfo(S, socket, data, timestamp) ==
    LET nodeInfo == [Project(data, NodeKeys) EXCEPT !.socket = socket,
                                                     !.lastSeen = timestamp,
                                                     !.status = "active"]
        S1 == [S EXCEPT !.connectedNodes = Put(@, data.nodeId, nodeInfo),
                        !.mon = updateNode(@, data.nodeId, nodeInfo, timestamp)]
    IN broadcastToClients(S1, "node_info", nodeInfo)

\* handleTokenStatus publishing before it updates the monitor
handleTokenStatus_PublishFirst(S, data, timestamp) ==
    [broadcastToClients(S, "token_status", data)
        EXCEPT !.mon = updateTokenStatus(@, data, timestamp)]

handleTokenStatus(S, data, timestamp) ==
    broadcastToClients([S EXCEPT !.mon = updateTokenStatus(@, data, timestamp)],
                       "token_status", data)

handleTopologyUpdate(S, data, timestamp) ==
    broadcastToClients([S EXCEPT !.mon = updateTopology(@, data)],
                       "topology_update", data)

handleStatisticsUpdate(S, data, timestamp) ==
    broadcastToClients([S EXCEPT !.mon = updateStatistics(@, data, timestamp)],
                       "statistics_update", data)

handleDfsState(S, data, timestamp) ==
    broadcastToClients([S EXCEPT !.mon = updateDfsState(@, data, timestamp)],
                       "dfs_state", data)

\* the tail of handleNodeMessage: record the event if recording is active
recordIfRecording(S, message, timestamp) ==
    IF S.isRecording
    THEN [S EXCEPT !.db = recordEvent(@, message.type, message.data, timestamp)]
    ELSE S

handleNodeMessage(S, socket, message, timestamp) ==
    recordIfRecording(
        CASE message.type = "node_info" ->
                 handleNodeInfo(S, socket, message.data, timestamp)
          [] message.type = "token_status" ->
                 handleTokenStatus(S, message.data, timestamp)
          [] message.type = "topology_update" ->
                 handleTopologyUpdate(S, message.data, timestamp)
          [] message.type = "statistics_update" ->
                 handleStatisticsUpdate(S, message.data, timestamp)
          [] message.type = "dfs_state" ->
                 handleDfsState(S, message.data, timestamp)
          [] OTHER -> S,
        message, timestamp)

\* the forEach with the try around the whole loop: a line that does not
\* parse ends the processing of the read
RECURSIVE forEachMessage_AbortOnError(_, _, _, _, _)
forEachMessage_AbortOnError(S, socket, messages, i, timestamp) ==
    IF i > Len(messages) THEN S
    ELSE IF ~Trimmed(messages[i])
         THEN forEachMessage_AbortOnError(S, socket, messages, i + 1, timestamp)
         ELSE IF JSONparse(messages[i]) = <<>> THEN S
              ELSE forEachMessage_AbortOnError(
                       [handleNodeMessage(S, socket, JSONparse(messages[i])[1], timestamp)
                           EXCEPT !.handled = Append(@, JSONparse(messages[i])[1]),
                                  !.nodeId = IF JSONparse(messages[i])[1].type = "node_info"
                                             THEN JSONparse(messages[i])[1].data.nodeId
                                             ELSE @],
                       socket, messages, i + 1, timestamp)

\* messages.forEach(messageStr => ...) of the socket's 'data' handler
RECURSIVE forEachMessage(_, _, _, _, _)
forEachMessage(S, socket, messages, i, timestamp) ==
    IF i > Len(messages) THEN S
    ELSE LET parsed == IF Trimmed(messages[i]) THEN JSONparse(messages[i]) ELSE <<>>
             S1 == IF parsed = <<>> THEN S
                   ELSE LET message == parsed[1]
                            S2 == handleNodeMessage(S, socket, message, timestamp)
                        IN [S2 EXCEPT !.handled = Append(@, message),
                                      !.nodeId = IF message.type = "node_info"
                                                 THEN message.data.nodeId ELSE @]
         IN forEachMessage(S1, socket, messages, i + 1, timestamp)

(***************************************************************************)
(* Reports on the wire.                                                    *)
(***************************************************************************)
Msg(type, data) == [type |-> type, data |-> data]
NodeInfoMsg(n, ip, status, neighbors) ==
    Msg("node_info", [NoData EXCEPT !.nodeId = n, !.ip = ip, !.status = status,
                                    !.neighbors = neighbors])
TopologyMsg(n, neighbors) ==
    Msg("topology_update", [NoData EXCEPT !.nodeId = n, !.neighbors = neighbors])
TokenMsg(n, holder, sequence) ==
    Msg("token_status", [NoData EXCEPT !.nodeId = n, !.currentHolder = holder,
                                       !.sequence = sequence])
StatsMsg(n, relayed) ==
    Msg("statistics_update", [NoData EXCEPT !.nodeId = n, !.messagesRelayed = relayed])
DfsMsg(n, depth) ==
    Msg("dfs_state", [NoData EXCEPT !.nodeId = n, !.depth = depth, !.phase = "FORWARD"])

\* reports on the framed stream: the second has an effect only after the first
FrameMsgs == {NodeInfoMsg("A", Absent, Absent, NoList), TopologyMsg("A", <<"A">>)}

(***************************************************************************)
(* Initial state: the server constructed, no connection yet.               *)
(***************************************************************************)
NoExport == [count |-> 0, sessionId |-> 0, session |-> <<>>, events |-> <<>>]


(***************************************************************************)
(* The RecordingPlayback component of the web client.  playbackData is     *)
(* modelled by its length; intervals[i] is the i-th setInterval call with  *)
(* the playbackData.length its callback closed over.                       *)
(***************************************************************************)
PlayerInit ==
    [playbackData |-> 0, isPlaying |-> FALSE, currentEventIndex |-> 0,
     playbackIntervalRef |-> 0, intervals |-> <<>>]

\* seekToEvent: the index it sets, for playbackData of the given length
seekToEvent(index, length) ==
    LET Min(a, b) == IF a <= b THEN a ELSE b
    IN  LET Max(a, b) == IF a >= b THEN a ELSE b
        IN  Max(0, Min(index, length - 1))

\* the updater of the stepping interval: the next index, and isPlaying
\* when it sets it
intervalStep(prevIndex, length) ==
    LET nextIndex == prevIndex + 1
    IN IF nextIndex >= length
       THEN [index |-> prevIndex, isPlaying |-> <<FALSE>>]
       ELSE [index |-> nextIndex, isPlaying |-> <<>>]

Init ==
    /\ now = 0
    /\ conns = [c \in Conns |-> [state |-> "new", nodeId |-> Null, buffer |-> <<>>]]
    /\ connectedNodes = EmptyMap
    /\ mon = MonInit
    /\ isRecording = FALSE
    /\ db = DbInit
    /\ fin = <<>>
    /\ emitted = <<>>
    /\ handled = <<>>
    /\ stream = [c \in Conns |-> <<>>]
    /\ delivered = [c \in Conns |-> <<>>]
    /\ obs = [o \in Observers |-> [connected |-> FALSE, playbackInterval |-> 0]]
    /\ timers = <<>>
    /\ outbox = [o \in Observers |-> <<>>]
    /\ exported = NoExport
    /\ player = PlayerInit

(***************************************************************************)
(* The TCP server (setupTcpServer).                                        *)
(***************************************************************************)
\* net.createServer callback: a peer connects; connections are numbered in
\* the order they arrive
TcpConnection(c) ==
    /\ conns[c].state = "new"
    /\ \A b \in Conns : b < c => conns[b].state # "new"
    /\ conns' = [conns EXCEPT ![c].state = "open"]
    /\ emitted' = <<>>
    /\ handled' = <<>>
    /\ UNCHANGED <<now, connectedNodes, mon, isRecording, db, fin, stream, delivered,
                   obs, timers, outbox, exported, player>>

\* what one 'data' event does: the new buffer and the state after the forEach
DataEffect(c, chunk) ==
    LET messages == Split(conns[c].buffer \o toString(chunk, 1), 1, <<>>)
        S0 == [connectedNodes |-> connectedNodes, mon |-> mon, db |-> db,
               isRecording |-> isRecording, emitted |-> <<>>, handled |-> <<>>,
               nodeId |-> conns[c].nodeId]
    IN [buffer |-> messages[Len(messages)],
        S |-> forEachMessage(S0, c, SubSeq(messages, 1, Len(messages) - 1), 1, now)]

\* io.emit reaching every web client, connected or not
Delivered_ToAll(events) ==
    [o \in Observers |->
        outbox[o] \o [i \in 1 .. Len(events) |->
                        [event |-> events[i].event, timer |-> 0,
                         data |-> <<events[i].data>>]]]

\* io.emit: the broadcasts of one step reach every connected observer
Delivered(events) ==
    [o \in Observers |->
        IF obs[o].connected
        THEN outbox[o] \o [i \in 1 .. Len(events) |->
                              [event |-> events[i].event, timer |-> 0,
                               data |-> <<events[i].data>>]]
        ELSE outbox[o]]

\* socket.on('data')
SocketData(c, chunk) ==
    /\ conns[c].state = "open"
    /\ \E r \in {DataEffect(c, chunk)} :
          /\ Len(r.S.db.events) <= MaxEvents
          /\ Len(r.S.mon.tokenHistory) <= MaxHist
          /\ \A n \in DOMAIN r.S.mon.nodes : Num(r.S.mon.nodes[n].tokenHolds) <= MaxHolds
          /\ conns' = [conns EXCEPT ![c].buffer = r.buffer, ![c].nodeId = r.S.nodeId]
          /\ connectedNodes' = r.S.connectedNodes
          /\ mon' = r.S.mon
          /\ db' = r.S.db
          /\ emitted' = r.S.emitted
          /\ handled' = r.S.handled
          /\ outbox' = Delivered(r.S.emitted)
    /\ UNCHANGED <<now, isRecording, fin, obs, timers, exported, player>>

\* socket.on('close')
SocketClose(c) ==
    /\ conns[c].state = "open"
    /\ conns' = [conns EXCEPT ![c].state = "closed"]
    /\ LET nodeId == conns[c].nodeId
       IN IF nodeId # Null /\ nodeId # Absent /\ nodeId \in DOMAIN connectedNodes
          THEN /\ connectedNodes' = Del(connectedNodes, nodeId)
               /\ emitted' = <<[event |-> "node_disconnected", data |-> nodeId]>>
          ELSE /\ connectedNodes' = connectedNodes
               /\ emitted' = <<>>
    /\ handled' = <<>>
    /\ outbox' = Delivered(emitted')
    /\ UNCHANGED <<now, mon, isRecording, db, fin, stream, delivered, obs, timers,
                   exported, player>>

\* the first connection: the specifications below follow one peer
Peer == CHOOSE c \in Conns : \A b \in Conns : c <= b

(***************************************************************************)
(* The wall clock: it advances, and it can be set back.                    *)
(***************************************************************************)
ClockTick ==
    /\ now < MaxTime
    /\ now' = now + 1
    /\ emitted' = <<>>
    /\ handled' = <<>>
    /\ UNCHANGED <<conns, connectedNodes, mon, isRecording, db, fin, stream, delivered,
                   obs, timers, outbox, exported, player>>

ClockSetBack ==
    /\ now > 0
    /\ now' = now - 1
    /\ emitted' = <<>>
    /\ handled' = <<>>
    /\ UNCHANGED <<conns, connectedNodes, mon, isRecording, db, fin, stream, delivered,
                   obs, timers, outbox, exported, player>>

(***************************************************************************)
(* Recording (startRecording, stopRecording, endRecordingSession,          *)
(* exportSessionData).  endRecordingSession suspends at each of its three  *)
(* awaits; `fin' holds the suspended calls in the order their pending      *)
(* statements were issued, which is the order they resume in.              *)
(***************************************************************************)
\* POST /api/recording/start
StartRecording ==
    /\ isRecording \/ Cardinality(DOMAIN db.sessions) < MaxSessions
    /\ IF ~isRecording
       THEN /\ isRecording' = TRUE
            /\ db' = startRecordingSession(db)
            /\ emitted' = <<[event |-> "recording_status", data |-> TRUE]>>
       ELSE /\ emitted' = <<>>
            /\ UNCHANGED <<isRecording, db>>
    /\ handled' = <<>>
    /\ outbox' = Delivered(emitted')
    /\ UNCHANGED <<now, conns, connectedNodes, mon, fin, stream, delivered, obs, timers,
                   exported, player>>

\* POST /api/recording/stop; endRecordingSession runs up to its first await
StopRecording ==
    /\ IF isRecording
       THEN /\ isRecording' = FALSE
            /\ fin' = IF db.currentSessionId = 0 THEN fin
                      ELSE Append(fin, [pc |-> "eventCount",
                                        eventCount |-> CountEvents(db, db.currentSessionId),
                                        nodeCount |-> 0])
            /\ emitted' = <<[event |-> "recording_status", data |-> FALSE]>>
       ELSE /\ emitted' = <<>>
            /\ UNCHANGED <<isRecording, fin>>
    /\ handled' = <<>>
    /\ outbox' = Delivered(emitted')
    /\ UNCHANGED <<now, conns, connectedNodes, mon, db, stream, delivered, obs, timers,
                   exported, player>>

\* endRecordingSession resumes with eventCount and issues the nodeCount query
EndSessionEventCount ==
    /\ fin # <<>> /\ Head(fin).pc = "eventCount"
    /\ fin' = Append(Tail(fin), [Head(fin) EXCEPT
                                    !.pc = "nodeCount",
                                    !.nodeCount = CountNodes(db, db.currentSessionId)])
    /\ emitted' = <<>>
    /\ handled' = <<>>
    /\ UNCHANGED <<now, conns, connectedNodes, mon, isRecording, db, stream, delivered,
                   obs, timers, outbox, exported, player>>

\* endRecordingSession resumes with nodeCount and issues the UPDATE
EndSessionNodeCount ==
    /\ fin # <<>> /\ Head(fin).pc = "nodeCount"
    /\ fin' = Append(Tail(fin), [Head(fin) EXCEPT !.pc = "update"])
    /\ db' = IF db.currentSessionId \in DOMAIN db.sessions
             THEN [db EXCEPT !.sessions[db.currentSessionId] =
                      [end_time |-> now, event_count |-> Head(fin).eventCount,
                       node_count |-> Head(fin).nodeCount]]
             ELSE db
    /\ emitted' = <<>>
    /\ handled' = <<>>
    /\ UNCHANGED <<now, conns, connectedNodes, mon, isRecording, stream, delivered, obs,
                   timers, outbox, exported, player>>

\* endRecordingSession resumes after the UPDATE and clears currentSessionId
EndSessionUpdate ==
    /\ fin # <<>> /\ Head(fin).pc = "update"
    /\ fin' = Tail(fin)
    /\ db' = [db EXCEPT !.currentSessionId = 0]
    /\ emitted' = <<>>
    /\ handled' = <<>>
    /\ UNCHANGED <<now, conns, connectedNodes, mon, isRecording, stream, delivered, obs,
                   timers, outbox, exported, player>>

\* exportSessionData(sessionId): the session row and its events
ExportSession ==
    \E sessionId \in DOMAIN db.sessions :
      \E events \in getRecordingEvents(db, sessionId) :
        /\ exported.count < MaxExports
        /\ exported' = [count |-> exported.count + 1, sessionId |-> sessionId,
                        session |-> <<db.sessions[sessionId]>>, events |-> events]
        /\ emitted' = <<>>
        /\ handled' = <<>>
        /\ UNCHANGED <<now, conns, connectedNodes, mon, isRecording, db, fin, stream,
                       delivered, obs, timers, outbox, player>>

RecData ==
    \* reports sent while recording: a recognised one and one of an unknown type
    LET RecMsgs == LET UnknownMsg(n) == Msg("bogus", [NoData EXCEPT !.nodeId = n])
                   IN  {TopologyMsg("A", <<>>), UnknownMsg("B")}
    IN  \E m \in RecMsgs : SocketData(Peer, Line(m)) /\ UNCHANGED <<stream, delivered>>

SpecRec ==
    /\ Init
    /\ [][\/ TcpConnection(Peer)
          \/ RecData
          \/ StartRecording
          \/ StopRecording
          \/ EndSessionEventCount
          \/ EndSessionNodeCount
          \/ EndSessionUpdate
          \/ ExportSession
          \/ ClockTick
          \/ ClockSetBack]_vars

(***************************************************************************)
(* Live ingestion of node_info and topology_update reports, one line per   *)
(* read.                                                                   *)
(***************************************************************************)
Connect == \E c \in Conns : TcpConnection(c)
Close == \E c \in Conns : SocketClose(c)
TopoData ==
    LET TopoMsgs == LET Other(n) == CHOOSE o \in NodeIds : o # n
                    IN  {NodeInfoMsg(n, Absent, Absent, l) : n \in NodeIds, l \in {NoList}}
                        \cup {NodeInfoMsg(n, Absent, Absent, <<Other(n)>>) : n \in NodeIds}
                        \cup {TopologyMsg(n, <<>>) : n \in NodeIds}
                        \cup {TopologyMsg(n, <<Other(n)>>) : n \in NodeIds}
    IN  \E c \in Conns, m \in TopoMsgs :
            SocketData(c, Line(m)) /\ UNCHANGED <<stream, delivered>>

Next == Connect \/ TopoData \/ Close

Spec == Init /\ [][Next]_vars

(***************************************************************************)
(* Live ingestion of token_status reports.                                 *)
(***************************************************************************)
TokenData ==
    \* token_status reports: with a holder, with a null holder, and (as the
    \* protocol document shows them) with no currentHolder key at all
    LET TokenMsgs == {TokenMsg("A", h, NoInt) : h \in {Absent, Null, "A", "B"}}
                     \cup {NodeInfoMsg("A", Absent, Absent, NoList)}
    IN  \E m \in TokenMsgs : SocketData(Peer, Line(m)) /\ UNCHANGED <<stream, delivered>>

SpecToken ==
    /\ Init
    /\ [][TcpConnection(Peer) \/ TokenData \/ SocketClose(Peer)]_vars

(***************************************************************************)
(* Live ingestion of repeated node_info reports of one node.               *)
(***************************************************************************)
MergeData ==
    \* node_info reports of one node, each field present, null or missing
    LET MergeMsgs == {NodeInfoMsg(n, ip, st, NoList) :
                         n \in NodeIds, ip \in {Absent, Null, "10.0.0.1", "10.0.0.2"},
                         st \in {Absent, "warning"}}
    IN  \E m \in MergeMsgs : SocketData(Peer, Line(m)) /\ UNCHANGED <<stream, delivered>>

SpecMerge ==
    /\ Init
    /\ [][TcpConnection(Peer) \/ MergeData \/ SocketClose(Peer) \/ ClockTick]_vars

(***************************************************************************)
(* Web clients and playback (setupSocketHandlers, startPlayback,           *)
(* stopPlayback).  timers[t] is the t-th startPlayback call: its loaded    *)
(* events, the eventIndex and the state of its interval ("loading" until   *)
(* the await resolves, then "ticking", then "cleared"; "failed" when the   *)
(* await rejects).  stopSeen records that the client asked to stop after   *)
(* this call.  obs[o].playbackInterval is socket.playbackInterval, 0 when  *)
(* unset.                                                                  *)
(***************************************************************************)
\* the three snapshot messages: the node list, getTopology(), getStatistics()
Snapshot ==
    <<[event |-> "nodes_update", timer |-> 0, data |-> <<connectedNodes>>],
      [event |-> "topology_update", timer |-> 0,
       data |-> <<[nodes |-> mon.topoNodes, edges |-> mon.edges]>>],
      [event |-> "statistics_update", timer |-> 0, data |-> <<mon.statistics>>]>>

\* io.on('connection')
ObsConnect(o) ==
    /\ ~obs[o].connected
    /\ obs' = [obs EXCEPT ![o].connected = TRUE]
    /\ outbox' = [outbox EXCEPT ![o] = @ \o Snapshot]
    /\ emitted' = <<>>
    /\ handled' = <<>>
    /\ UNCHANGED <<now, conns, connectedNodes, mon, isRecording, db, fin, stream,
                   delivered, timers, exported, player>>

\* socket.on('start_playback'): startPlayback up to its await; the query is
\* answered from the store as it is now
StartPlayback(o, sessionId) ==
    /\ obs[o].connected
    /\ Len(timers) < MaxTimers
    /\ \E events \in getRecordingEvents(db, sessionId) :
          timers' = Append(timers, [socket |-> o, sessionId |-> sessionId,
                                    events |-> events, eventIndex |-> 0,
                                    state |-> "loading", stopSeen |-> FALSE])
    /\ emitted' = <<>>
    /\ handled' = <<>>
    /\ UNCHANGED <<now, conns, connectedNodes, mon, isRecording, db, fin, stream,
                   delivered, obs, outbox, exported, player>>

\* startPlayback after its await: setInterval, socket.playbackInterval = it
PlaybackLoaded(t) ==
    /\ t \in DOMAIN timers
    /\ timers[t].state = "loading"
    /\ \A u \in 1 .. t - 1 : timers[u].state # "loading"
    /\ timers' = [timers EXCEPT ![t].state = "ticking"]
    /\ obs' = [obs EXCEPT ![timers[t].socket].playbackInterval = t]
    /\ emitted' = <<>>
    /\ handled' = <<>>
    /\ UNCHANGED <<now, conns, connectedNodes, mon, isRecording, db, fin, stream,
                   delivered, outbox, exported, player>>

\* startPlayback's catch: the query failed (the store gave an error, or a
\* row's data did not parse), the client is told and no interval is set
PlaybackLoadFailed(t) ==
    /\ t \in DOMAIN timers
    /\ timers[t].state = "loading"
    /\ \A u \in 1 .. t - 1 : timers[u].state # "loading"
    /\ timers' = [timers EXCEPT ![t].state = "failed"]
    /\ outbox' = [outbox EXCEPT ![timers[t].socket] =
                     Append(@, [event |-> "playback_error", timer |-> t,
                                data |-> <<"error.message">>])]
    /\ emitted' = <<>>
    /\ handled' = <<>>
    /\ UNCHANGED <<now, conns, connectedNodes, mon, isRecording, db, fin, stream,
                   delivered, obs, exported, player>>

\* the interval callback ending one event before the end of the list
playbackTick_EarlyComplete(tm) ==
    IF tm.eventIndex + 1 >= Len(tm.events)
    THEN [timer |-> [tm EXCEPT !.state = "cleared"],
          emit |-> [event |-> "playback_complete", data |-> <<>>]]
    ELSE [timer |-> [tm EXCEPT !.eventIndex = @ + 1],
          emit |-> [event |-> "playback_event", data |-> <<tm.events[tm.eventIndex + 1]>>]]

\* the interval callback: the timer afterwards and the message it emits
playbackTick(tm) ==
    IF tm.eventIndex >= Len(tm.events)
    THEN [timer |-> [tm EXCEPT !.state = "cleared"],
          emit |-> [event |-> "playback_complete", data |-> <<>>]]
    ELSE [timer |-> [tm EXCEPT !.eventIndex = @ + 1],
          emit |-> [event |-> "playback_event", data |-> <<tm.events[tm.eventIndex + 1]>>]]

\* the interval of timers[t] fires
PlaybackTick(t) ==
    /\ t \in DOMAIN timers
    /\ timers[t].state = "ticking"
    /\ \E r \in {playbackTick(timers[t])} :
          /\ timers' = [timers EXCEPT ![t] = r.timer]
          /\ outbox' = [outbox EXCEPT ![timers[t].socket] =
                           Append(@, [event |-> r.emit.event, timer |-> t,
                                      data |-> r.emit.data])]
    /\ emitted' = <<>>
    /\ handled' = <<>>
    /\ UNCHANGED <<now, conns, connectedNodes, mon, isRecording, db, fin, stream,
                   delivered, obs, exported, player>>

\* stopPlayback clearing the intervals of every client
StopPlayback_EveryClient(o) ==
    /\ obs[o].connected
    /\ timers' = [t \in DOMAIN timers |->
                    [timers[t] EXCEPT
                        !.state = IF @ = "ticking" THEN "cleared" ELSE @,
                        !.stopSeen = @ \/ timers[t].socket = o]]
    /\ obs' = [obs EXCEPT ![o].playbackInterval = 0]
    /\ emitted' = <<>>
    /\ handled' = <<>>
    /\ UNCHANGED <<now, conns, connectedNodes, mon, isRecording, db, fin, stream,
                   delivered, outbox, exported, player>>

\* socket.on('stop_playback'): stopPlayback
StopPlayback(o) ==
    /\ obs[o].connected
    /\ timers' = [t \in DOMAIN timers |->
                    [timers[t] EXCEPT
                        !.state = IF t = obs[o].playbackInterval THEN "cleared" ELSE @,
                        !.stopSeen = @ \/ timers[t].socket = o]]
    /\ obs' = [obs EXCEPT ![o].playbackInterval = 0]
    /\ emitted' = <<>>
    /\ handled' = <<>>
    /\ UNCHANGED <<now, conns, connectedNodes, mon, isRecording, db, fin, stream,
                   delivered, outbox, exported, player>>

\* a store left by earlier recordings: the first session holds the events,
\* each recorded at its time of the plan; the later sessions recorded nothing
RECURSIVE Recorded(_, _, _)
Recorded(d, plan, i) ==
    IF i > Len(plan) THEN d
    ELSE Recorded(recordEvent(d, "topology_update", TopologyMsg("A", <<>>).data, plan[i]),
                  plan, i + 1)

InitPlay ==
    LET StoreAfter(plan) == LET d == Recorded(startRecordingSession(DbInit), plan, 1)
                            IN [currentSessionId |-> 0,
                                sessions |-> [id \in 1 .. MaxSessions |->
                                                 [end_time |-> MaxTime, node_count |-> CountNodes(d, id),
                                                  event_count |-> CountEvents(d, id)]],
                                events |-> d.events]
    IN  LET RecordingPlans == UNION {[1 .. k -> 0 .. MaxTime] : k \in 0 .. MaxEvents}
        IN  /\ now = MaxTime
            /\ conns = [c \in Conns |-> [state |-> "new", nodeId |-> Null, buffer |-> <<>>]]
            /\ connectedNodes = EmptyMap
            /\ mon = MonInit
            /\ isRecording = FALSE
            /\ db \in {StoreAfter(plan) : plan \in RecordingPlans}
            /\ fin = <<>>
            /\ emitted = <<>>
            /\ handled = <<>>
            /\ stream = [c \in Conns |-> <<>>]
            /\ delivered = [c \in Conns |-> <<>>]
            /\ obs = [o \in Observers |-> [connected |-> FALSE, playbackInterval |-> 0]]
            /\ timers = <<>>
            /\ outbox = [o \in Observers |-> <<>>]
            /\ exported = NoExport
            /\ player = PlayerInit

\* a pending query is answered and a running interval keeps firing
SpecPlay ==
    /\ InitPlay
    /\ [][\/ \E o \in Observers : ObsConnect(o)
          \/ \E o \in Observers, sessionId \in 1 .. MaxSessions + 1 :
                StartPlayback(o, sessionId)
          \/ \E t \in 1 .. MaxTimers : PlaybackLoaded(t)
          \/ \E t \in 1 .. MaxTimers : PlaybackLoadFailed(t)
          \/ \E t \in 1 .. MaxTimers : PlaybackTick(t)
          \/ \E o \in Observers : StopPlayback(o)]_vars
    /\ \A t \in 1 .. MaxTimers : WF_vars(PlaybackLoaded(t)) /\ WF_vars(PlaybackTick(t))

(***************************************************************************)
(* The message framer: one peer's byte stream arriving in arbitrary reads. *)
(* `stream' keeps all bytes read so far, `delivered' all reports handled.  *)
(***************************************************************************)
FramerData ==
    LET FrameChunks == \* the bytes a read can deliver: any short piece of the stream; a truncated
                       \* report line followed, in the same read, by a whole report line; and the
                       \* same after a whole report line
                       LET FrameBytes == {NL} \cup {Head_(m) : m \in FrameMsgs} \cup {Tail_(m) : m \in FrameMsgs}
                       IN  UNION {[1 .. k -> FrameBytes] : k \in 1 .. MaxChunk}
                           \cup {<<Head_(m), NL>> \o Line(n) : m \in FrameMsgs, n \in FrameMsgs}
                           \cup {Line(k) \o <<Head_(m), NL>> \o Line(n) :
                                     k \in FrameMsgs, m \in FrameMsgs, n \in FrameMsgs}
    IN  \E chunk \in FrameChunks :
            /\ stream[Peer] = <<>> \/ Len(stream[Peer]) + Len(chunk) <= MaxStream
            /\ SocketData(Peer, chunk)
            /\ stream' = [stream EXCEPT ![Peer] = @ \o chunk]
            /\ delivered' = [delivered EXCEPT ![Peer] = @ \o handled']

SpecFramer ==
    /\ Init
    /\ [][TcpConnection(Peer) \/ FramerData]_vars

(***************************************************************************)
(* The NetworkMonitor class used directly: updateNode, updateTopology and  *)
(* removeNode called in any order (the server itself never calls           *)
(* removeNode).  `handled' names the last call.                            *)
(***************************************************************************)
MonUnchanged ==
    UNCHANGED <<now, conns, connectedNodes, isRecording, db, fin, emitted, stream,
                delivered, obs, timers, outbox, exported, player>>

MonUpdateNode ==
    /\ \E n \in NodeIds, l \in {NoList} \cup NeighborLists :
          /\ mon' = updateNode(mon, n, [NoNode EXCEPT !.nodeId = n, !.neighbors = l,
                                                      !.status = "active"], now)
          /\ handled' = <<Msg("updateNode", [NoData EXCEPT !.nodeId = n, !.neighbors = l])>>
    /\ MonUnchanged

MonUpdateTopology ==
    /\ \E n \in NodeIds, l \in NeighborLists :
          /\ mon' = updateTopology(mon, TopologyMsg(n, l).data)
          /\ handled' = <<Msg("updateTopology", TopologyMsg(n, l).data)>>
    /\ MonUnchanged

MonRemoveNode ==
    /\ \E n \in NodeIds :
          /\ mon' = removeNode(mon, n, now)
          /\ handled' = <<Msg("removeNode", [NoData EXCEPT !.nodeId = n])>>
    /\ MonUnchanged

SpecTopology ==
    /\ Init
    /\ [][MonUpdateNode \/ MonUpdateTopology \/ MonRemoveNode]_vars

(***************************************************************************)
(* Registration and close: every connection may register any node id, any  *)
(* number of times; `delivered' keeps the reports each connection sent.    *)
(***************************************************************************)

RegisterData ==
    LET RegisterMsgs == {NodeInfoMsg(n, Absent, Absent, NoList) : n \in NodeIds}
    IN  \E c \in Conns, m \in RegisterMsgs :
            /\ Len(delivered[c]) < MaxReports
            /\ SocketData(c, Line(m))
            /\ delivered' = [delivered EXCEPT ![c] = @ \o handled']
            /\ UNCHANGED stream

SpecClose ==
    /\ Init
    /\ [][Connect \/ RegisterData \/ Close]_vars

(***************************************************************************)
(* Statistics: one peer registers nodes and reports counters, token        *)
(* holders and DFS states.                                                 *)
(***************************************************************************)

StatsData ==
    LET StatsMsgs == {NodeInfoMsg("A", Absent, Absent, NoList)}
                     \cup {StatsMsg("A", r) : r \in 0 .. MaxCount}
                     \cup {TokenMsg("A", h, NoInt) : h \in {"A", "B"}}
                     \cup {DfsMsg(n, 1) : n \in {"A", "B"}}
    IN  \E m \in StatsMsgs : SocketData(Peer, Line(m)) /\ UNCHANGED <<stream, delivered>>

SpecStats ==
    /\ Init
    /\ [][TcpConnection(Peer) \/ StatsData]_vars

(***************************************************************************)
(* Web clients subscribing while one peer reports and disconnects.         *)
(***************************************************************************)

ObserveData ==
    LET ObserveMsgs == {NodeInfoMsg("A", Absent, Absent, NoList), TopologyMsg("A", <<"A">>)}
    IN  \E m \in ObserveMsgs :
            /\ \A o \in Observers : Len(outbox[o]) < MaxOutbox
            /\ SocketData(Peer, Line(m))
            /\ UNCHANGED <<stream, delivered>>

SpecObserve ==
    /\ Init
    /\ [][\/ TcpConnection(Peer)
          \/ ObserveData
          \/ SocketClose(Peer)
          \/ \E o \in Observers : ObsConnect(o)]_vars

(***************************************************************************)
(* getTopology and getStatistics.  A returned object is modelled by the    *)
(* values its caller reads, together with the names of the parts that are  *)
(* the monitor's own objects: the spread copies the reference of           *)
(* topology.nodes and topology.edges, node.neighbors is handed out unless  *)
(* it is missing, and slice copies the history array but not its entries.  *)
(***************************************************************************)
LastOf(s, k) == SubSeq(s, IF Len(s) > k THEN Len(s) - k + 1 ELSE 1, Len(s))

getTokenPath(m) ==
    LET recentMovements == LastOf(m.tokenHistory, 10)
    IN [i \in 1 .. Len(recentMovements) |->
           [from |-> recentMovements[i].from, to |-> recentMovements[i].to,
            timestamp |-> recentMovements[i].timestamp,
            sequence |-> recentMovements[i].sequence]]

getTopology(m, t) ==
    [nodes |-> m.topoNodes,
     edges |-> m.edges,
     tokenPath |-> getTokenPath(m),
     lastUpdate |-> t,
     shared |-> {"nodes", "edges"}]

getNodeStatistics(m) ==
    [n \in DOMAIN m.nodes |->
        [nodeId |-> n, ip |-> m.nodes[n].ip, status |-> m.nodes[n].status,
         bytesSent |-> Num(m.nodes[n].bytesSent),
         bytesReceived |-> Num(m.nodes[n].bytesReceived),
         messagesRelayed |-> Num(m.nodes[n].messagesRelayed),
         tokenHolds |-> Num(m.nodes[n].tokenHolds),
         lastSeen |-> m.nodes[n].lastSeen,
         neighbors |-> IF IsList(m.nodes[n].neighbors) THEN m.nodes[n].neighbors
                       ELSE <<>>]]

getStatistics(m, t) ==
    [totals |-> m.statistics,
     nodeStatistics |-> getNodeStatistics(m),
     tokenHistory |-> LastOf(m.tokenHistory, 50),
     lastUpdate |-> t,
     sharedNeighbors |-> {n \in DOMAIN m.nodes : IsList(m.nodes[n].neighbors)},
     sharedEntries |-> 1 .. Len(LastOf(m.tokenHistory, 50))]

(***************************************************************************)
(* The monitor called directly, and a caller of the two getters that       *)
(* changes what it was given: it empties a returned list, or overwrites a  *)
(* field of a returned history entry.                                      *)
(***************************************************************************)
\* node A reports its neighbour B; node B reports no neighbours field
SnapshotUpdateNode ==
    /\ \E r \in {<<"A", <<"B">>>>, <<"B", NoList>>} :
          /\ mon' = updateNode(mon, r[1], [NoNode EXCEPT !.nodeId = r[1],
                                                         !.neighbors = r[2],
                                                         !.status = "active"], now)
          /\ handled' = <<Msg("updateNode", [NoData EXCEPT !.nodeId = r[1],
                                                           !.neighbors = r[2]])>>
    /\ MonUnchanged

MonUpdateTokenStatus ==
    /\ \E h \in {"A", "B"} :
          /\ Len(mon.tokenHistory) < MaxHist
          /\ \A n \in DOMAIN mon.nodes : Num(mon.nodes[n].tokenHolds) < MaxHolds
          /\ mon' = updateTokenStatus(mon, TokenMsg(h, h, NoInt).data, now)
          /\ handled' = <<Msg("updateTokenStatus", TokenMsg(h, h, NoInt).data)>>
    /\ MonUnchanged

MutateTopologySnapshot ==
    /\ \E v \in {getTopology(mon, now)}, p \in {"nodes", "edges", "tokenPath"} :
          /\ Len(v[p]) > 0
          /\ mon' = IF p \notin v.shared THEN mon
                    ELSE IF p = "nodes" THEN [mon EXCEPT !.topoNodes = <<>>]
                    ELSE [mon EXCEPT !.edges = <<>>]
          /\ handled' = <<Msg("getTopology", NoData)>>
    /\ MonUnchanged

MutateStatisticsSnapshot ==
    \* a write to the `to' field of the i-th entry of a returned history
    LET WriteEntry(m, i, v) == LET first == Len(m.tokenHistory) - Len(LastOf(m.tokenHistory, 50))
                               IN [m EXCEPT !.tokenHistory[first + i].to = v]
    IN  \* a write to the neighbour array of node n, which the node's topology entry
        \* holds as well
        LET WriteNeighbors(m, n, l) == [m EXCEPT !.nodes[n].neighbors = l,
                                                 !.topoNodes = [i \in DOMAIN @ |->
                                                                   IF @[i].id = n THEN [@[i] EXCEPT !.neighbors = l]
                                                                   ELSE @[i]]]
        IN  /\ \E v \in {getStatistics(mon, now)} :
                  \/ \E n \in DOMAIN v.nodeStatistics :
                        /\ Len(v.nodeStatistics[n].neighbors) > 0
                        /\ mon' = IF n \in v.sharedNeighbors THEN WriteNeighbors(mon, n, <<>>)
                                  ELSE mon
                  \/ \E i \in 1 .. Len(v.tokenHistory) :
                        mon' = IF i \in v.sharedEntries
                               THEN WriteEntry(mon, i, v.tokenHistory[i].from)
                               ELSE mon
                  \/ /\ Len(v.tokenHistory) > 0
                     /\ mon' = mon
            /\ handled' = <<Msg("getStatistics", NoData)>>
            /\ MonUnchanged

SpecSnapshot ==
    /\ Init
    /\ [][\/ SnapshotUpdateNode
          \/ MonUpdateTokenStatus
          \/ MutateTopologySnapshot
          \/ MutateStatisticsSnapshot]_vars

(***************************************************************************)
(* The controls of the RecordingPlayback component: a click on a session   *)
(* card, Play, Pause, Stop, the slider and the event list, and the firing  *)
(* of an interval.                                                         *)
(***************************************************************************)
PlayerUnchanged ==
    UNCHANGED <<now, conns, connectedNodes, mon, isRecording, db, fin, emitted, handled,
                stream, delivered, obs, timers, outbox, exported>>

\* loadSessionData after its await: setPlaybackData(data), setCurrentEventIndex(0)
PlayerLoad ==
    /\ \E length \in 0 .. MaxLoaded :
          player' = [player EXCEPT !.playbackData = length, !.currentEventIndex = 0]
    /\ PlayerUnchanged

\* the Play button (shown while isPlaying is false): startPlayback
PlayerStart ==
    /\ ~player.isPlaying
    /\ player.playbackData # 0
    /\ Len(player.intervals) < MaxIntervals
    /\ player' = [player EXCEPT
                     !.isPlaying = TRUE,
                     !.intervals = Append(@, [length |-> player.playbackData,
                                              active |-> TRUE]),
                     !.playbackIntervalRef = Len(player.intervals) + 1]
    /\ PlayerUnchanged

\* the i-th interval fires
PlayerTick(i) ==
    /\ i \in DOMAIN player.intervals
    /\ player.intervals[i].active
    /\ \E r \in {intervalStep(player.currentEventIndex, player.intervals[i].length)} :
          player' = [player EXCEPT
                        !.currentEventIndex = r.index,
                        !.isPlaying = IF r.isPlaying = <<>> THEN @ ELSE r.isPlaying[1]]
    /\ PlayerUnchanged

\* pausePlayback
pausePlayback(p) ==
    [p EXCEPT !.isPlaying = FALSE,
              !.intervals = [i \in DOMAIN @ |->
                                IF i = p.playbackIntervalRef
                                THEN [@[i] EXCEPT !.active = FALSE] ELSE @[i]],
              !.playbackIntervalRef = 0]

\* the Pause button (shown while isPlaying is true)
PlayerPause ==
    /\ player.isPlaying
    /\ player' = pausePlayback(player)
    /\ PlayerUnchanged

\* the Stop button: stopPlayback
PlayerStop ==
    /\ player.playbackData # 0
    /\ player' = [pausePlayback(player) EXCEPT !.currentEventIndex = 0]
    /\ PlayerUnchanged

\* the slider or a click in the event list: seekToEvent(index)
PlayerSeek(index) ==
    /\ player' = [player EXCEPT
                     !.currentEventIndex = seekToEvent(index, player.playbackData)]
    /\ PlayerUnchanged

SpecSeek ==
    /\ Init
    /\ [][\/ PlayerLoad
          \/ PlayerStart
          \/ \E i \in 1 .. MaxIntervals : PlayerTick(i)
          \/ PlayerPause
          \/ PlayerStop
          \/ \E index \in 0 - 1 .. MaxLoaded : PlayerSeek(index)]_vars

(***************************************************************************)
(* Dispatch: one peer sending one report of each type of the protocol,     *)
(* with and without an open recording session.                             *)
(***************************************************************************)

DispatchData ==
    LET DispatchMsgs == LET ErrorMsg(n) == Msg("error", [NoData EXCEPT !.nodeId = n])
                        IN  LET HeartbeatMsg(n) == Msg("heartbeat_response", [NoData EXCEPT !.nodeId = n])
                            IN  {NodeInfoMsg("A", Absent, Absent, NoList), TokenMsg("A", "A", NoInt),
                                 TopologyMsg("A", <<>>), StatsMsg("A", 1), DfsMsg("A", 1),
                                 HeartbeatMsg("A"), ErrorMsg("A")}
    IN  \E m \in DispatchMsgs : SocketData(Peer, Line(m)) /\ UNCHANGED <<stream, delivered>>

SpecDispatch ==
    /\ Init
    /\ [][\/ TcpConnection(Peer)
          \/ DispatchData
          \/ StartRecording
          \/ StopRecording]_vars

(***************************************************************************)
(* The update operations of the monitor called directly, each any number   *)
(* of times in a row; `handled' names the last call.                       *)
(***************************************************************************)
MonUpdateStatistics ==
    /\ \E r \in 0 .. MaxCount :
          /\ mon' = updateStatistics(mon, StatsMsg("A", r).data, now)
          /\ handled' = <<Msg("updateStatistics", StatsMsg("A", r).data)>>
    /\ MonUnchanged

MonUpdateDfsState ==
    /\ \E n \in {"A"}, depth \in 0 .. 1 :
          /\ mon' = updateDfsState(mon, DfsMsg(n, depth).data, now)
          /\ handled' = <<Msg("updateDfsState", DfsMsg(n, depth).data)>>
    /\ MonUnchanged

SpecApply ==
    /\ Init
    /\ [][\/ SnapshotUpdateNode
          \/ MonUpdateTokenStatus
          \/ MonUpdateStatistics
          \/ MonUpdateDfsState]_vars

(***************************************************************************)
(* One peer sending one report of each of the five handled types.          *)
(***************************************************************************)

PublishData ==
    LET PublishMsgs == {NodeInfoMsg("A", Absent, Absent, NoList), TokenMsg("A", "A", NoInt),
                        TopologyMsg("A", <<"A">>), StatsMsg("A", 1), DfsMsg("A", 1)}
    IN  \E m \in PublishMsgs : SocketData(Peer, Line(m)) /\ UNCHANGED <<stream, delivered>>

SpecPublish ==
    /\ Init
    /\ [][TcpConnection(Peer) \/ PublishData]_vars

(***************************************************************************)
(* A write of the recorder that fails.  recordEvent returns the promise of *)
(* runQuery and handleNodeMessage drops it, so a failed INSERT is a        *)
(* rejection nobody handles.  What Node.js does with it depends on how it  *)
(* is run: with --unhandled-rejections=warn it prints a warning, with the  *)
(* default of Node.js 15 and later it ends the process.                    *)
(***************************************************************************)
WriteFailMsgs ==
    {NodeInfoMsg("A", Absent, Absent, NoList), TopologyMsg("A", <<"A">>), StatsMsg("A", 1)}

WriteData ==
    \E m \in WriteFailMsgs : SocketData(Peer, Line(m)) /\ UNCHANGED <<stream, delivered>>

\* socket.on('data') with one report whose INSERT fails: the handler runs as
\* always, no row is stored and the rejection is pending
FailedWriteData ==
    /\ conns[Peer].state = "open"
    /\ fin = <<>>
    /\ \E m \in WriteFailMsgs :
         \E r \in {DataEffect(Peer, Line(m))} :
            /\ r.S.db # db
            /\ conns' = [conns EXCEPT ![Peer].buffer = r.buffer, ![Peer].nodeId = r.S.nodeId]
            /\ connectedNodes' = r.S.connectedNodes
            /\ mon' = r.S.mon
            /\ emitted' = r.S.emitted
            /\ handled' = r.S.handled
            /\ outbox' = Delivered(r.S.emitted)
    /\ fin' = <<[pc |-> "rejected", eventCount |-> 0, nodeCount |-> 0]>>
    /\ UNCHANGED <<now, isRecording, db, stream, delivered, obs, timers, exported, player>>

\* the rejection surfaces and Node.js only warns
RejectionWarns ==
    /\ fin # <<>> /\ Head(fin).pc = "rejected"
    /\ fin' = Tail(fin)
    /\ emitted' = <<>>
    /\ handled' = <<>>
    /\ UNCHANGED <<now, conns, connectedNodes, mon, isRecording, db, stream, delivered,
                   obs, timers, outbox, exported, player>>

\* the rejection surfaces and Node.js ends the process: the connections
\* are gone and everything held in memory is lost; the database file stays
RejectionExits ==
    /\ fin # <<>> /\ Head(fin).pc = "rejected"
    /\ fin' = <<>>
    /\ conns' = [c \in Conns |-> IF conns[c].state = "open"
                                 THEN [conns[c] EXCEPT !.state = "closed"]
                                 ELSE conns[c]]
    /\ connectedNodes' = EmptyMap
    /\ mon' = MonInit
    /\ isRecording' = FALSE
    /\ db' = [db EXCEPT !.currentSessionId = 0]
    /\ obs' = [o \in Observers |-> [connected |-> FALSE, playbackInterval |-> 0]]
    /\ timers' = [t \in DOMAIN timers |-> [timers[t] EXCEPT !.state = "cleared"]]
    /\ emitted' = <<>>
    /\ handled' = <<>>
    /\ UNCHANGED <<now, stream, delivered, outbox, exported, player>>

SpecWriteFail ==
    /\ Init
    /\ [][\/ TcpConnection(Peer)
          \/ StartRecording
          \/ WriteData
          \/ FailedWriteData
          \/ RejectionWarns
          \/ RejectionExits]_vars

(***************************************************************************)
(* One peer's stream of well-formed report lines, one of them with a node  *)
(* id outside ASCII, arriving cut into reads at any byte.                  *)
(***************************************************************************)
SplitMsgs ==
    {NodeInfoMsg("A", Absent, Absent, NoList), NodeInfoMsg(AccentId, Absent, Absent, NoList),
     TopologyMsg("A", <<"A">>), TopologyMsg(AccentId, <<"A">>)}

\* the byte sequences that begin a stream of report lines
RECURSIVE ValidPrefix(_)
ValidPrefix(s) ==
    \E m \in SplitMsgs :
        \/ /\ Len(s) < Len(Line(m))
           /\ s = SubSeq(Line(m), 1, Len(s))
        \/ /\ Len(s) >= Len(Line(m))
           /\ SubSeq(s, 1, Len(Line(m))) = Line(m)
           /\ ValidPrefix(SubSeq(s, Len(Line(m)) + 1, Len(s)))

SplitData ==
    LET SplitBytes == UNION {Range(Line(m)) : m \in SplitMsgs}
    IN  \E chunk \in UNION {[1 .. k -> SplitBytes] : k \in 1 .. MaxChunk} :
            /\ Len(stream[Peer]) + Len(chunk) <= MaxStream
            /\ ValidPrefix(stream[Peer] \o chunk)
            /\ SocketData(Peer, chunk)
            /\ stream' = [stream EXCEPT ![Peer] = @ \o chunk]
            /\ delivered' = [delivered EXCEPT ![Peer] = @ \o handled']

SpecSplit ==
    /\ Init
    /\ [][TcpConnection(Peer) \/ SplitData \/ SocketClose(Peer)]_vars

(***************************************************************************)
(* The token history at its capacity.  The monitor starts as a long run of *)
(* token_status reports leaves it: the token went round A, B, C with the   *)
(* peers counting the sequence, no node registered; the history holds the  *)
(* movements so far, a few less than HISTORY_CAP or just as many.          *)
(***************************************************************************)

InitHistory ==
    \* the monitor after the reports with holders HolderAt(0) .. HolderAt(k) and
    \* sequences 0 .. k, for k up to HISTORY_CAP
    LET MonAfterMovements(k) == LET HolderAt(i) == NodeNames[(i % Len(NodeNames)) + 1]
                                IN  [MonInit EXCEPT
                                        !.tokenStatus = [@ EXCEPT !.currentHolder = HolderAt(k), !.sequence = k,
                                                                  !.lastMovement = 0],
                                        !.statistics.tokenCirculations = k,
                                        !.tokenHistory = [i \in 1 .. k |->
                                                             [from |-> HolderAt(i - 1), to |-> HolderAt(i), timestamp |-> 0,
                                                              sequence |-> i, phase |-> Absent, depth |-> NoInt]]]
    IN  /\ now = 0
        /\ conns = [c \in Conns |-> [state |-> "new", nodeId |-> Null, buffer |-> <<>>]]
        /\ connectedNodes = EmptyMap
        /\ mon \in {MonAfterMovements(k) : k \in HISTORY_CAP - MaxOver .. HISTORY_CAP}
        /\ isRecording = FALSE
        /\ db = DbInit
        /\ fin = <<>>
        /\ emitted = <<>>
        /\ handled = <<>>
        /\ stream = [c \in Conns |-> <<>>]
        /\ delivered = [c \in Conns |-> <<>>]
        /\ obs = [o \in Observers |-> [connected |-> FALSE, playbackInterval |-> 0]]
        /\ timers = <<>>
        /\ outbox = [o \in Observers |-> <<>>]
        /\ exported = NoExport
        /\ player = PlayerInit

\* updateTokenStatus with the next sequence number and any holder
HistoryUpdateTokenStatus ==
    /\ mon.tokenStatus.sequence < HISTORY_CAP + MaxOver
    /\ \E h \in Range(NodeNames) :
          \E d \in {TokenMsg(h, h, mon.tokenStatus.sequence + 1).data} :
             /\ mon' = updateTokenStatus(mon, d, now)
             /\ handled' = <<Msg("updateTokenStatus", d)>>
    /\ MonUnchanged

SpecHistory ==
    /\ InitHistory
    /\ [][HistoryUpdateTokenStatus]_vars

(***************************************************************************)
(* token_status reports carrying sequence numbers, in any order: each      *)
(* report names a holder and the sequence number its sender counted.       *)
(***************************************************************************)
SequenceUpdateTokenStatus ==
    /\ Len(mon.tokenHistory) < MaxHist
    /\ \E h \in {"A", "B"}, s \in 0 .. MaxCount :
          \E d \in {TokenMsg(h, h, s).data} :
             /\ mon' = updateTokenStatus(mon, d, now)
             /\ handled' = <<Msg("updateTokenStatus", d)>>
    /\ MonUnchanged

SpecSequence ==
    /\ Init
    /\ [][SequenceUpdateTokenStatus]_vars

(***************************************************************************)
(* Counters: updateStatistics for registered and unregistered nodes, with  *)
(* every counter present or missing in the report.                         *)
(***************************************************************************)
CountersUpdateStatistics ==
    /\ \E n \in Range(NodeNames),
          c \in {<<NoInt, NoInt, NoInt>>, <<NoInt, NoInt, 0>>}
                 \cup {<<sent, 1, 1>> : sent \in 1 .. MaxCount} :
          \E d \in {[NoData EXCEPT !.nodeId = n, !.bytesSent = c[1],
                                   !.bytesReceived = c[2],
                                   !.messagesRelayed = c[3]]} :
             /\ mon' = updateStatistics(mon, d, now)
             /\ handled' = <<Msg("updateStatistics", d)>>
    /\ MonUnchanged

SpecCounters ==
    /\ Init
    /\ [][SnapshotUpdateNode \/ CountersUpdateStatistics]_vars

(***************************************************************************)
(* node_info reports without a nodeId key, among reports of node A.        *)
(***************************************************************************)
NoIdData ==
    LET NoIdMsgs == {NodeInfoMsg(Absent, ip, Absent, NoList) : ip \in {Absent, "10.0.0.1"}}
                    \cup {NodeInfoMsg("A", Absent, Absent, NoList),
                          TopologyMsg("A", <<"A">>)}
    IN  \E m \in NoIdMsgs : SocketData(Peer, Line(m)) /\ UNCHANGED <<stream, delivered>>

SpecNoId ==
    /\ Init
    /\ [][TcpConnection(Peer) \/ NoIdData \/ SocketClose(Peer) \/ ClockTick]_vars

(***************************************************************************)
(* Properties.                                                             *)
(***************************************************************************)
EdgeSet == {<<e.from, e.to>> : e \in Range(mon.edges)}

\* C1: when the connection that registered node n closes, n is
\* gone from the server's node list, from the aggregator's nodes and from the
\* topology (node entry and edges), and totalNodes/activeNodes no longer count n.
C1_ClosedNodeEvicted ==
    [][\A c \in Conns :
          (conns[c].state = "open" /\ conns'[c].state = "closed"
           /\ conns[c].nodeId \in NodeIds)
          => LET n == conns[c].nodeId
                 rest == DOMAIN mon.nodes \ {n}
             IN /\ n \notin DOMAIN connectedNodes'
                /\ n \notin DOMAIN mon'.nodes
                /\ \A i \in 1 .. Len(mon'.topoNodes) : mon'.topoNodes[i].id # n
                /\ \A i \in 1 .. Len(mon'.edges) :
                      mon'.edges[i].from # n /\ mon'.edges[i].to # n
                /\ mon'.statistics.totalNodes = Cardinality(rest)
                /\ mon'.statistics.activeNodes =
                      Cardinality({x \in rest : mon.nodes[x].status = "active"})]_vars

\* C2: every topology edge has both endpoints in the aggregator's node set.
C2_NoDanglingEdges ==
    \A i \in 1 .. Len(mon.edges) :
        mon.edges[i].from \in DOMAIN mon.nodes /\ mon.edges[i].to \in DOMAIN mon.nodes

\* C2 witness: node A was just removed while B, still known, lists A as a
\* neighbour and has its topology entry
C2_Witness ==
    /\ handled = <<Msg("removeNode", [NoData EXCEPT !.nodeId = "A"])>>
    /\ "B" \in DOMAIN mon.nodes
    /\ mon.nodes["B"].neighbors = <<"A", "B">>
    /\ EdgeSet = {<<"B", "B">>}

\* C3: the edge set is exactly the pairs (n, m) of known nodes
\* with m in n's current neighbour list, and totalNodes counts the known nodes.
C3_EdgesMatchNeighbors ==
    LET NeighborPairs == {p \in (DOMAIN mon.nodes) \X (DOMAIN mon.nodes) :
                             /\ IsList(mon.nodes[p[1]].neighbors)
                             /\ p[2] \in Range(mon.nodes[p[1]].neighbors)}
    IN  /\ EdgeSet = NeighborPairs
        /\ mon.statistics.totalNodes = Cardinality(DOMAIN mon.nodes)

\* C4: a token_status report raises tokenCirculations by one and
\* appends one movement record (previous holder -> new holder) exactly when it
\* changes currentHolder from one holder to a different non-null holder; any
\* other report, e.g. one with no or a null currentHolder, appends nothing.
C4_MovementPerHolderChange ==
    [][LET prev == mon.tokenStatus.currentHolder
           cur == mon'.tokenStatus.currentHolder
           changed == prev # Null /\ cur # Null /\ cur # prev
       IN /\ mon'.statistics.tokenCirculations =
                mon.statistics.tokenCirculations + (IF changed THEN 1 ELSE 0)
          /\ Len(mon'.tokenHistory) = Len(mon.tokenHistory) + (IF changed THEN 1 ELSE 0)
          /\ changed => /\ mon'.tokenHistory[Len(mon'.tokenHistory)].from = prev
                        /\ mon'.tokenHistory[Len(mon'.tokenHistory)].to = cur]_vars

\* C5: after a node_info report for node n, each reported field of
\* n's record holds the report's value when that is non-null, and otherwise
\* still holds the earlier non-null value.
C5_MergeKeepsLastNonNull ==
    [][\A i \in 1 .. Len(handled') :
          handled'[i].type = "node_info" /\ Len(handled') = 1 =>
              LET data == handled'[i].data
                  n == data.nodeId
              IN \A k \in {"ip", "status"} :
                    /\ (data[k] # Absent /\ data[k] # Null) => mon'.nodes[n][k] = data[k]
                    /\ (/\ data[k] \in {Absent, Null}
                        /\ n \in DOMAIN mon.nodes
                        /\ mon.nodes[n][k] \notin {Absent, Null})
                       => mon'.nodes[n][k] = mon.nodes[n][k]]_vars

\* C6: the events read back for a finalised session are in their
\* dispatch order (ascending ordinal), and the stored eventCount is their number.
C6_RecordingRoundTrip ==
    (exported.sessionId # 0 /\ exported.session[1].end_time # NoInt) =>
        /\ \A i, j \in 1 .. Len(exported.events) :
              i < j => exported.events[i].id < exported.events[j].id
        /\ exported.session[1].event_count = Len(exported.events)

RecognisedTypes == {"node_info", "token_status", "topology_update", "statistics_update",
                    "dfs_state", "heartbeat_response", "error"}

\* C9: a report of an unrecognised type changes no aggregator
\* state, is not broadcast and is not persisted, also while a session is open.
C9_UnknownTypeDropped ==
    [][(Len(handled') = 1 /\ handled'[1].type \notin RecognisedTypes) =>
          /\ mon' = mon
          /\ connectedNodes' = connectedNodes
          /\ emitted' = <<>>
          /\ db'.events = db.events]_vars

\* the positions of the line terminators of a byte stream
Terminators(bytes) == {i \in 1 .. Len(bytes) : bytes[i] = NL}
\* the terminated line that ends at terminator i
LineEnding(bytes, i) ==
    LET before == {j \in Terminators(bytes) : j < i}
        start == IF before = {} THEN 1
                 ELSE (CHOOSE j \in before : \A k \in before : k <= j) + 1
    IN SubSeq(bytes, start, i - 1)
WellFormed(line) == \E m \in FrameMsgs : line = Text(m)
\* the reports of the well-formed terminated lines of a byte stream, in order
RECURSIVE ReportsFrom(_, _)
ReportsFrom(bytes, i) ==
    IF i > Len(bytes) THEN <<>>
    ELSE (IF bytes[i] = NL /\ WellFormed(LineEnding(bytes, i))
          THEN <<LineEnding(bytes, i)[1].msg[1]>> ELSE <<>>) \o ReportsFrom(bytes, i + 1)
\* the aggregator after the given reports, applied in order
RECURSIVE MonitorAfter(_, _, _)
MonitorAfter(m, reports, i) ==
    IF i > Len(reports) THEN m
    ELSE MonitorAfter(
             IF reports[i].type = "node_info"
             THEN updateNode(m, reports[i].data.nodeId,
                             [Project(reports[i].data, NodeKeys) EXCEPT
                                 !.socket = Peer, !.lastSeen = now, !.status = "active"],
                             now)
             ELSE updateTopology(m, reports[i].data),
             reports, i + 1)

\* C10: whatever malformed lines the stream holds, the connection stays open,
\* the framer keeps exactly the unterminated rest of the stream, and the
\* reports handled are exactly the well-formed lines, applied in stream order.
C10_MalformedLineDiscardedAlone ==
    \* the unterminated rest of a byte stream
    LET Unterminated(bytes) == LET T == Terminators(bytes)
                               IN IF T = {} THEN bytes
                                  ELSE SubSeq(bytes, (CHOOSE j \in T : \A k \in T : k <= j) + 1, Len(bytes))
    IN  stream[Peer] # <<>> =>
            /\ conns[Peer].state = "open"
            /\ conns[Peer].buffer = Unterminated(stream[Peer])
            /\ delivered[Peer] = ReportsFrom(stream[Peer], 1)
            /\ mon = MonitorAfter(MonInit, ReportsFrom(stream[Peer], 1), 1)

\* C10 witness: a report line, then a malformed line, then a report line have
\* arrived, and both reports were handled on the connection, still open
C10_Witness ==
    /\ conns[Peer].state = "open"
    /\ Len(delivered[Peer]) = 2
    /\ \E i, j, k \in Terminators(stream[Peer]) :
          /\ i < j /\ j < k
          /\ WellFormed(LineEnding(stream[Peer], i))
          /\ LineEnding(stream[Peer], j) # <<>>
          /\ ~WellFormed(LineEnding(stream[Peer], j))
          /\ WellFormed(LineEnding(stream[Peer], k))

\* what the t-th playback has sent to the client o
PlaybackEmits(o, t) == SelectSeq(outbox[o], LAMBDA e : e.timer = t)
PlaybackEvents(o, t) ==
    LET sent == SelectSeq(PlaybackEmits(o, t), LAMBDA e : e.event = "playback_event")
    IN [i \in 1 .. Len(sent) |-> sent[i].data[1]]
Completions(o, t) ==
    Len(SelectSeq(PlaybackEmits(o, t), LAMBDA e : e.event = "playback_complete"))

\* C7: a playback sends its client the loaded events E1..En in order, none
\* twice and none left out, then one playback_complete and nothing more, and
\* sends no other client anything; and a playback whose events were loaded
\* and that nobody asks to stop does get to its playback_complete.
C7_PlaybackInOrderThenComplete ==
    /\ [](\A t \in DOMAIN timers :
            LET tm == timers[t]
                sent == PlaybackEmits(tm.socket, t)
                events == PlaybackEvents(tm.socket, t)
            IN /\ \A o \in Observers \ {tm.socket} : PlaybackEmits(o, t) = <<>>
               /\ events = SubSeq(tm.events, 1, Len(events))
               /\ Completions(tm.socket, t) <= 1
               /\ Completions(tm.socket, t) = 1 =>
                     /\ sent[Len(sent)].event = "playback_complete"
                     /\ events = tm.events)
    /\ \A t \in 1 .. MaxTimers :
          (t \in DOMAIN timers) ~>
              (/\ t \in DOMAIN timers
               /\ \/ Completions(timers[t].socket, t) = 1
                  \/ timers[t].stopSeen
                  \/ timers[t].state = "failed")

\* C7 witness: a playback of at least two events that ran to its completion
C7_Witness ==
    \E t \in DOMAIN timers :
        /\ Len(timers[t].events) >= 2
        /\ ~timers[t].stopSeen
        /\ Completions(timers[t].socket, t) = 1

\* C8: once the client has asked to stop, the playbacks it had started send
\* it nothing more.
C8_NothingAfterStop ==
    [][\A t \in DOMAIN timers :
          timers[t].stopSeen =>
              PlaybackEmits(timers[t].socket, t)' = PlaybackEmits(timers[t].socket, t)]_vars

\* C11: at most one session has no end time at any moment, and a start
\* command given while recording creates no session, keeps the current
\* session id and publishes nothing.
C11_OneOpenSession ==
    /\ [](LET OpenSessions == {id \in DOMAIN db.sessions : db.sessions[id].end_time = NoInt}
          IN Cardinality(OpenSessions) <= 1)
    /\ [][(isRecording /\ StartRecording) =>
             /\ db' = db
             /\ emitted' = <<>>
             /\ outbox' = outbox]_vars

\* C12: once a stop command has been carried out in full, every session that
\* was stopped has an end time, an event_count equal to the number of stored
\* events of that session and a node_count equal to the number of distinct
\* non-null node ids among them.
C12_StopFinalisesSession ==
    (~isRecording /\ fin = <<>>) =>
        \A id \in DOMAIN db.sessions :
            /\ db.sessions[id].end_time # NoInt
            /\ db.sessions[id].event_count = CountEvents(db, id)
            /\ db.sessions[id].node_count = CountNodes(db, id)

\* C13: when a connection closes, each node it registered that is listed gets
\* exactly one node_disconnected broadcast, and a connection that registered
\* no node causes none.
C13_OneDisconnectPerClose ==
    [][LET \* how many node_disconnected broadcasts of the step just taken name n
           Disconnects(n) ==
               Len(SelectSeq(emitted, LAMBDA e : e.event = "node_disconnected" /\ e.data = n))
           \* the node ids a connection has registered with node_info
           RegisteredBy(c) ==
               {delivered[c][i].data.nodeId :
                   i \in {j \in 1 .. Len(delivered[c]) : delivered[c][j].type = "node_info"}}
       IN \A c \in Conns :
             (conns[c].state = "open" /\ conns'[c].state = "closed") =>
                 /\ \A n \in RegisteredBy(c) \cap DOMAIN connectedNodes : Disconnects(n)' = 1
                 /\ RegisteredBy(c) = {} => emitted' = <<>>]_vars

\* C14: networkEfficiency lies in [0, 100], and it is 0 when no message was
\* relayed and no token circulation was counted.
C14_EfficiencyInRange ==
    LET e == mon.statistics.networkEfficiency
    IN /\ e.den > 0
       /\ 0 <= e.num
       /\ e.num <= 100 * e.den
       /\ (mon.statistics.messagesRelayed = 0 /\ mon.statistics.tokenCirculations = 0)
             => e.num = 0

\* C14 witness: relayed messages and token circulations are both counted and
\* the efficiency is strictly between 0 and 100
C14_Witness ==
    /\ mon.statistics.messagesRelayed > 0
    /\ mon.statistics.tokenCirculations > 0
    /\ mon.statistics.networkEfficiency.num > 0
    /\ mon.statistics.networkEfficiency.num < 100 * mon.statistics.networkEfficiency.den

\* C15: after every report applied, each statistics field has the value that
\* a recomputation from the current model gives; so networkEfficiency agrees
\* with the current tokenCirculations and dfsCompletionRate with the current
\* visitedCount.
C15_StatisticsCurrent ==
    mon.statistics = calculateGlobalStatistics(mon, now).statistics

\* C16: a playback asked for a session the store does not have sends its
\* client no playback_event and no playback_complete, sends it one
\* playback_error once the load is over, and sends no other client anything.
C16_UnknownSessionIsAnError ==
    \* how many playback_error messages the t-th playback has sent to the client o
    LET Errors(o, t) == Len(SelectSeq(PlaybackEmits(o, t), LAMBDA e : e.event = "playback_error"))
    IN  \A t \in DOMAIN timers :
            timers[t].sessionId \notin DOMAIN db.sessions =>
                /\ \A o \in Observers \ {timers[t].socket} : PlaybackEmits(o, t) = <<>>
                /\ PlaybackEvents(timers[t].socket, t) = <<>>
                /\ Completions(timers[t].socket, t) = 0
                /\ timers[t].state # "loading" => Errors(timers[t].socket, t) = 1

\* C17: the first messages a web client ever gets are the three snapshot
\* messages, holding the node list, topology and statistics of that moment,
\* whatever reports were handled before and whatever reports follow.
C17_SnapshotFirst ==
    [][\A o \in Observers :
          (outbox[o] = <<>> /\ outbox'[o] # <<>>) => outbox'[o] = Snapshot']_vars

\* C17 witness: a client that subscribed after node A had registered got the
\* snapshot listing A and then an incremental event
C17_Witness ==
    \E o \in Observers :
        /\ Len(outbox[o]) > 3
        /\ SubSeq(outbox[o], 1, 3) = Snapshot
        /\ "A" \in DOMAIN outbox[o][1].data[1]

\* C18: a caller that changes a value returned by getTopology or getStatistics
\* (empties its node list, edge list or a neighbour list, overwrites a field
\* of a history entry) leaves the monitor's state, and with it every later
\* snapshot, as it was.
C18_SnapshotsAreCopies ==
    [][(MutateTopologySnapshot \/ MutateStatisticsSnapshot) =>
          /\ mon' = mon
          /\ getTopology(mon', now') = getTopology(mon, now)
          /\ getStatistics(mon', now') = getStatistics(mon, now)]_vars

\* C19: playbacks of different clients do not touch each other: a playback
\* sends the events of the session it was started for, in their order, to the
\* client that started it and to nobody else, and a stop command or a tick of
\* one client changes neither the playbacks of another client nor what they
\* have sent.
C19_IndependentPlaybacks ==
    /\ [](\A t \in DOMAIN timers :
            LET tm == timers[t]
                events == PlaybackEvents(tm.socket, t)
            IN /\ \A o \in Observers \ {tm.socket} : PlaybackEmits(o, t) = <<>>
               /\ tm.events \in getRecordingEvents(db, tm.sessionId)
               /\ events = SubSeq(tm.events, 1, Len(events)))
    /\ [][\A o \in Observers :
             (\/ StopPlayback(o)
              \/ \E t \in DOMAIN timers : timers[t].socket = o /\ PlaybackTick(t)) =>
                 \A u \in DOMAIN timers :
                     timers[u].socket # o =>
                         /\ timers'[u] = timers[u]
                         /\ outbox'[timers[u].socket] = outbox[timers[u].socket]]_vars

\* C19 witness: one client stopped its playback before the end while the
\* playback of another client ran to its completion
C19_Witness ==
    \E t, u \in DOMAIN timers :
        /\ timers[t].socket # timers[u].socket
        /\ timers[t].stopSeen
        /\ timers[t].state = "cleared"
        /\ timers[t].eventIndex > 0
        /\ timers[t].eventIndex < Len(timers[t].events)
        /\ Len(timers[u].events) >= 2
        /\ ~timers[u].stopSeen
        /\ Completions(timers[u].socket, u) = 1

\* C20: a seek sets the current index to the requested one, clamped to the
\* loaded events; an interval started afterwards moves it on one event at a
\* time, so the event after event k is event k+1; and while a session of n > 0
\* events is loaded the current index is within 0 .. n-1.
C20_SeekThenResume ==
    /\ [](player.playbackData > 0 =>
             player.currentEventIndex \in 0 .. player.playbackData - 1)
    /\ [][\A i \in DOMAIN player.intervals :
             (PlayerTick(i) /\ player.currentEventIndex' # player.currentEventIndex) =>
                 player.currentEventIndex' = player.currentEventIndex + 1]_vars

\* C21: a report of one of the seven recognised types is published exactly
\* once, on the channel named by its type, and is persisted as one more event
\* of that type when a session is open.
C21_RecognisedReportDispatched ==
    [][(Len(handled') = 1 /\ handled'[1].type \in RecognisedTypes) =>
          /\ Len(emitted') = 1
          /\ emitted'[1].event = handled'[1].type
          /\ isRecording =>
                /\ Len(db'.events) = Len(db.events) + 1
                /\ db'.events[Len(db'.events)].event_type = handled'[1].type]_vars

\* C22: the events loaded for a playback are in the order of their insertion
\* ids, also when two events have equal timestamps or a later event has an
\* earlier timestamp than one before it.
C22_LoadedInInsertionOrder ==
    \A t \in DOMAIN timers :
        \A i, j \in 1 .. Len(timers[t].events) :
            i < j => timers[t].events[i].id < timers[t].events[j].id

\* C23: updateTopology for a node id the monitor does not know changes nothing;
\* for a known node n it sets n's neighbour list to the reported one and
\* leaves every edge that starts at another node as it was, the edges that
\* point at n included.
C23_TopologyUpdateOwnEdgesOnly ==
    [][(Len(handled') = 1 /\ handled'[1].type = "updateTopology") =>
          LET n == handled'[1].data.nodeId
              FromOthers(edges) == SelectSeq(edges, LAMBDA e : e.from # n)
          IN IF n \notin DOMAIN mon.nodes
             THEN mon' = mon
             ELSE /\ mon'.nodes[n].neighbors = handled'[1].data.neighbors
                  /\ FromOthers(mon'.edges) = FromOthers(mon.edges)]_vars

\* C24: calling an update operation of the monitor a second time in a row
\* with the same report leaves the monitor as the first call left it (the
\* clock standing still, so that the timestamps agree).
C24_ApplyIdempotent ==
    [][(handled # <<>> /\ handled' = handled) => mon' = mon]_vars

\* C25: when a report is published, the monitor has already been updated with
\* it: when one report is handled, the monitor a client would read at the
\* moment of the broadcast is the monitor the handling of the report ends with.
C25_PublishedAfterApply ==
    [][Len(handled') = 1 =>
          \A i \in 1 .. Len(emitted') :
              /\ emitted'[i].event = handled'[1].type
              /\ emitted'[i].monitor = mon']_vars

\* C25 witness: a token_status report naming A as holder was published, and
\* the monitor read at that moment has A as holder (it had none before)
C25_Witness ==
    /\ Len(emitted) = 1
    /\ emitted[1].event = "token_status"
    /\ emitted[1].monitor.tokenStatus.currentHolder = "A"
    /\ emitted[1].monitor.tokenHistory = <<>>
    /\ "A" \in DOMAIN emitted[1].monitor.nodes
    /\ emitted[1].monitor.nodes["A"].tokenHolds = 1

\* C26: a report whose write to the store fails is applied and published all
\* the same, and the failure changes nothing else: the monitor and the node
\* list stay as the report left them and the events stored so far stay.
C26_FailedWriteIsLocal ==
    /\ [][FailedWriteData =>
             /\ Len(handled') = 1
             /\ mon' = handleNodeMessage(
                           [connectedNodes |-> connectedNodes, mon |-> mon, db |-> db,
                            isRecording |-> isRecording, emitted |-> <<>>,
                            handled |-> <<>>, nodeId |-> conns[Peer].nodeId],
                           Peer, handled'[1], now).mon
             /\ Len(emitted') = 1
             /\ emitted'[1].event = handled'[1].type
             /\ db'.events = db.events]_vars
    /\ [][(fin # <<>> /\ Head(fin).pc = "rejected" /\ fin' # fin) =>
             /\ mon' = mon
             /\ connectedNodes' = connectedNodes
             /\ db'.events = db.events]_vars

\* the reports of the lines of a list of strings that JSON.parse accepts
RECURSIVE ParsedLines(_, _)
ParsedLines(lines, i) ==
    IF i > Len(lines) THEN <<>>
    ELSE (IF Trimmed(lines[i]) THEN JSONparse(lines[i]) ELSE <<>>)
         \o ParsedLines(lines, i + 1)

\* C27: the reports handled for a connection are those of its byte stream
\* taken as a whole, in stream order, each once, however the stream was cut
\* into reads.
C27_FramingIndependentOfReads ==
    \* the reports handled when the bytes arrive in one read
    LET ReportsOfOneRead(bytes) == LET messages == Split(toString(bytes, 1), 1, <<>>)
                                   IN ParsedLines(SubSeq(messages, 1, Len(messages) - 1), 1)
    IN  delivered[Peer] = ReportsOfOneRead(stream[Peer])

\* C28: the token history never holds more than 1000 records; a movement is
\* appended at the end, and when the history is full the oldest record is the
\* one dropped, the others keeping their order.
C28_HistoryBoundedFifo ==
    /\ [](Len(mon.tokenHistory) <= HISTORY_CAP)
    /\ [][mon'.statistics.tokenCirculations = mon.statistics.tokenCirculations + 1 =>
             LET old == mon.tokenHistory
                 new == mon'.tokenHistory
             IN /\ new # <<>>
                /\ new[Len(new)].sequence = mon'.tokenStatus.sequence
                /\ SubSeq(new, 1, Len(new) - 1) =
                      IF Len(old) = HISTORY_CAP THEN Tail(old) ELSE old]_vars

\* C28 witness: the history is full and its oldest record is no longer the
\* first movement: records were dropped at the front
C28_Witness ==
    /\ Len(mon.tokenHistory) = HISTORY_CAP
    /\ mon.statistics.tokenCirculations = HISTORY_CAP + 2
    /\ mon.tokenHistory[1].sequence > 1

\* C29: the sequence of the token status never decreases, whatever the order
\* in which token_status reports arrive.
C29_SequenceMonotonic ==
    [][mon'.tokenStatus.sequence >= mon.tokenStatus.sequence]_vars

\* C30: after a dfs_state report of node n, the record of n holds the reported
\* phase, depth and visited list, and the token status holds the reported
\* phase and depth, a depth of 0 included.
C30_DfsStateApplied ==
    [][(Len(handled') = 1 /\ handled'[1].type = "updateDfsState") =>
          LET d == handled'[1].data
          IN /\ d.nodeId \in DOMAIN mon'.dfsState
             /\ mon'.dfsState[d.nodeId].phase = d.phase
             /\ mon'.dfsState[d.nodeId].depth = d.depth
             /\ mon'.dfsState[d.nodeId].visited = d.visited
             /\ mon'.tokenStatus.phase = d.phase
             /\ mon'.tokenStatus.traversalDepth = d.depth]_vars

\* C31: the node ids holding a DFS state record are always among the known
\* node ids: a dfs_state report of an unknown node creates no record and the
\* removal of a node removes its record.
C31_DfsRecordsOfKnownNodes == DOMAIN mon.dfsState \subseteq DOMAIN mon.nodes

\* C32: a statistics_update of a known node overwrites the three counters of
\* that node and leaves the other nodes, the topology and the token status as
\* they were; for an unknown node no node record and no performance entry
\* changes; afterwards totalBandwidth and messagesRelayed are the sums over the
\* nodes.
C32_StatisticsUpdateFrame ==
    [][(Len(handled') = 1 /\ handled'[1].type = "updateStatistics") =>
          LET d == handled'[1].data
              n == d.nodeId
              ids == DOMAIN mon'.nodes
          IN /\ ids = DOMAIN mon.nodes
             /\ IF n \in DOMAIN mon.nodes
                THEN /\ mon'.nodes[n].bytesSent = Num(d.bytesSent)
                     /\ mon'.nodes[n].bytesReceived = Num(d.bytesReceived)
                     /\ mon'.nodes[n].messagesRelayed = Num(d.messagesRelayed)
                     /\ \A o \in ids \ {n} : mon'.nodes[o] = mon.nodes[o]
                ELSE /\ mon'.nodes = mon.nodes
                     /\ mon'.performanceMetrics = mon.performanceMetrics
             /\ mon'.topoNodes = mon.topoNodes
             /\ mon'.edges = mon.edges
             /\ mon'.tokenStatus = mon.tokenStatus
             /\ mon'.statistics.totalBandwidth =
                   SumOver(ids, [o \in ids |-> Num(mon'.nodes[o].bytesSent)
                                               + Num(mon'.nodes[o].bytesReceived)])
             /\ mon'.statistics.messagesRelayed =
                   SumOver(ids, [o \in ids |-> Num(mon'.nodes[o].messagesRelayed)])]_vars

\* C32 witness: A and B are known, both have reported counters, the last
\* report was A's, and the totals count both nodes
C32_Witness ==
    /\ Len(handled) = 1 /\ handled[1].type = "updateStatistics"
    /\ handled[1].data.nodeId = "A"
    /\ DOMAIN mon.nodes = {"A", "B"}
    /\ mon.nodes["A"].bytesSent = 2
    /\ mon.nodes["B"].bytesSent = 1 /\ mon.nodes["B"].messagesRelayed = 1
    /\ mon.statistics.totalBandwidth >= 3

\* C33: whenever the recording flag is on, the recorder has a current session,
\* so that every report dispatched while the flag is on is stored, whatever the
\* interleaving of start and stop commands with the steps of a finalisation.
C33_RecordingHasSession == isRecording => db.currentSessionId # 0

\* C34: a finalisation writes end time and counts only to the session that was
\* open when its stop command was issued: the row of a session started after
\* that stop, which is being recorded, is never modified.
C34_FinalisationOwnSessionOnly ==
    [][\A id \in DOMAIN db.sessions :
          (isRecording /\ id = db.currentSessionId) => db'.sessions[id] = db.sessions[id]]_vars

\* C35: a node stays in the node list as long as the connection that
\* registered it last is open: the close of another connection, which
\* registered the same node id earlier, neither removes the node nor publishes
\* node_disconnected for it.
C35_OlderCloseKeepsNode ==
    [][\A c \in Conns :
          (conns[c].state = "open" /\ conns'[c].state = "closed") =>
              \A n \in DOMAIN connectedNodes :
                  (connectedNodes[n].socket # c
                     /\ conns[connectedNodes[n].socket].state = "open") =>
                      /\ n \in DOMAIN connectedNodes'
                      /\ \A i \in 1 .. Len(emitted') :
                            ~(emitted'[i].event = "node_disconnected" /\ emitted'[i].data = n)]_vars

\* C37: once no peer connection is open any more, the node list of the server
\* is empty, also when one connection registered several node ids.
C37_NoConnectionNoNode ==
    (\A c \in Conns : conns[c].state # "open") => DOMAIN connectedNodes = {}

\* C36: at most one playback timer is active per client at any moment, so the
\* events of two replays are never interleaved and one stop command ends all
\* playback messages to the client.
C36_OneActiveTimerPerClient ==
    \A o \in Observers :
        Cardinality({t \in DOMAIN timers :
                        timers[t].socket = o /\ timers[t].state = "ticking"}) <= 1

\* C38: at most one node entry of the topology has hasToken = true, and an
\* entry has hasToken = true exactly when its id is the current token holder.
C38_HasTokenIsCurrentHolder ==
    /\ Cardinality({i \in 1 .. Len(mon.topoNodes) : mon.topoNodes[i].hasToken}) <= 1
    /\ \A i \in 1 .. Len(mon.topoNodes) :
          mon.topoNodes[i].hasToken <=> mon.topoNodes[i].id = mon.tokenStatus.currentHolder

\* C39: dfsCompletionRate is within [0, 100] in every state, whatever
\* dfs_state, token_status and node_info reports arrive.
C39_CompletionRateInRange ==
    LET r == mon.statistics.dfsCompletionRate
    IN /\ r.den > 0
       /\ 0 <= r.num
       /\ r.num <= 100 * r.den

\* C40: a well-formed node_info report without a nodeId creates or alters no
\* node record, neither in the node list of the server nor in the aggregator
\* nor in the topology.
C40_NodeInfoWithoutIdIgnored ==
    [][(/\ Len(handled') = 1
        /\ handled'[1].type = "node_info"
        /\ handled'[1].data.nodeId = Absent) =>
          /\ connectedNodes' = connectedNodes
          /\ mon'.nodes = mon.nodes
          /\ mon'.topoNodes = mon.topoNodes
          /\ mon'.edges = mon.edges]_vars

=============================================================================
